---------------------------- MODULE Spec2Model ----------------------------
(***************************************************************************)
(* A model of gist_manager/core.py: the update reconciler                  *)
(* (_prepare_update_payload), the gist-ID normalizer (_extract_gist_id,    *)
(* _is_valid_gist_id), the file collector (_read_files_from_paths) and the *)
(* calls of GistManager against a remote gist and the gists of the         *)
(* account; and of the update and delete commands of gist_manager/cli.py.  *)
(*                                                                         *)
(* Python values are represented as follows.                               *)
(*   dict            a function; {} is the empty function <<>>             *)
(*   list, str (ID)  a sequence; an ID or URL is a sequence of characters  *)
(*   Optional[str]   None is <<>>, the string s is <<s>>                   *)
(*   {"content": c}  the record [content |-> c]                            *)
(*   a JSON null     Null                                                  *)
(* new_files and files_to_remove are only ever tested for truthiness, so   *)
(* None and the empty dict/list are both the empty function.               *)
(***************************************************************************)
EXTENDS Integers, Sequences, FiniteSets, TLC

VARIABLES
    recon,      \* one evaluation of _prepare_update_payload: arguments, locals, result
    norm,       \* one evaluation of _extract_gist_id: argument and outcome
    remote,     \* the remote gist: its files and description
    call,       \* the running call of GistManager: its arguments and position
    requests,   \* the HTTP requests the running call has issued, in order
    reader,     \* one evaluation of _read_files_from_paths: paths, files and result
    cli,        \* the running command of the command line: its options and position
    account     \* the gists the account has held remotely: ID -> still exists

vars == <<recon, norm, remote, call, requests, reader, cli, account>>

---------------------------------------------------------------------------
(* Bounds of the model *)

NumNames == 2
MaxRemove == 2

AllNames == <<"main.py", "README.md", "a.py", "b.txt">>
Names == {AllNames[i] : i \in 1..NumNames}

\* file contents: two that differ by a line ending only
Contents == {"A", "A\n"}

---------------------------------------------------------------------------
(* Python values *)

None == <<>>
Some(v) == <<v>>
Null == [null |-> TRUE]
EmptyDict == <<>>

\* bool(x) of a dict
TruthyDict(d) == DOMAIN d # {}
\* bool(x) of a list
TruthyList(l) == Len(l) > 0

\* d[k] = v
Put(d, k, v) == [x \in DOMAIN d \cup {k} |-> IF x = k THEN v ELSE d[x]]

\* the FileSets over Names: filename -> content
FileSets == UNION {[S -> Contents] : S \in SUBSET Names}

\* the lists of at most n filenames
RECURSIVE SeqsUpTo(_, _)
SeqsUpTo(S, n) ==
    IF n = 0 THEN {<<>>}
    ELSE LET shorter == SeqsUpTo(S, n - 1)
         IN  shorter \cup {Append(s, x) : s \in {t \in shorter : Len(t) = n - 1}, x \in S}

RemoveLists == SeqsUpTo(Names, MaxRemove)

Descriptions == {"", "new desc"}
OptDescriptions == {None} \cup {Some(d) : d \in Descriptions}

\* the gist object the API returns for a file set and a description
GistOf(files, description) ==
    [files |-> [f \in DOMAIN files |-> [content |-> files[f]]],
     description |-> description]

\* the file set held by a gist object
FilesOf(gist) == [f \in DOMAIN gist.files |-> gist.files[f].content]

Snapshots == {GistOf(fs, "old desc") : fs \in FileSets}

---------------------------------------------------------------------------
(* _prepare_update_payload *)

\* current_files[filename].get("content", "")
ContentOf(file) == IF "content" \in DOMAIN file THEN file.content ELSE ""

\* variant: every file of new_files is staged, whatever the gist holds
StageNewFilesAlways(current_files, new_files) ==
    [f \in DOMAIN new_files |-> [content |-> new_files[f]]]

\* content with its line ending dropped (used by a variant below)
WithoutLineEnding(content) == IF content = "A\n" THEN "A" ELSE content

\* variant: contents are compared after dropping line endings
StageNewFilesNormalized(current_files, new_files) ==
    IF TruthyDict(new_files)
    THEN [f \in {g \in DOMAIN new_files :
                    IF g \in DOMAIN current_files
                    THEN WithoutLineEnding(ContentOf(current_files[g]))
                            # WithoutLineEnding(new_files[g])
                    ELSE TRUE}
            |-> [content |-> new_files[f]]]
    ELSE EmptyDict

\* the first loop: stage the new and the modified files
StageNewFiles(current_files, new_files) ==
    IF TruthyDict(new_files)
    THEN [f \in {g \in DOMAIN new_files :
                    IF g \in DOMAIN current_files
                    THEN ContentOf(current_files[g]) # new_files[g]
                    ELSE TRUE}
            |-> [content |-> new_files[f]]]
    ELSE EmptyDict

\* variant: a listed file already staged by the first loop keeps its entry
RECURSIVE StageRemovalsKeepStaged(_, _, _)
StageRemovalsKeepStaged(files_payload, current_files, files_to_remove) ==
    IF ~TruthyList(files_to_remove) THEN files_payload
    ELSE LET filename == Head(files_to_remove)
         IN  StageRemovalsKeepStaged(
                 IF filename \in DOMAIN current_files /\ filename \notin DOMAIN files_payload
                 THEN Put(files_payload, filename, Null)
                 ELSE files_payload,
                 current_files, Tail(files_to_remove))

\* variant: a listed file gets its tombstone whether or not the gist holds it
RECURSIVE StageRemovalsUnchecked(_, _, _)
StageRemovalsUnchecked(files_payload, current_files, files_to_remove) ==
    IF ~TruthyList(files_to_remove) THEN files_payload
    ELSE StageRemovalsUnchecked(Put(files_payload, Head(files_to_remove), Null),
                                current_files, Tail(files_to_remove))

\* the second loop: a tombstone for each listed file the gist holds
RECURSIVE StageRemovals(_, _, _)
StageRemovals(files_payload, current_files, files_to_remove) ==
    IF ~TruthyList(files_to_remove) THEN files_payload
    ELSE LET filename == Head(files_to_remove)
         IN  StageRemovals(
                 IF filename \in DOMAIN current_files
                 THEN Put(files_payload, filename, Null)
                 ELSE files_payload,
                 current_files, Tail(files_to_remove))

\* variant: the third loop does not look the filename up in new_files
StageSyncUnstaged(files_payload, current_files, new_files, sync_mode) ==
    IF sync_mode /\ TruthyDict(new_files)
    THEN LET unlisted == {f \in DOMAIN current_files : f \notin DOMAIN files_payload}
         IN  [f \in DOMAIN files_payload \cup unlisted |->
                 IF f \in unlisted THEN Null ELSE files_payload[f]]
    ELSE files_payload

\* variant: the third loop runs in sync mode whether or not new_files is empty
StageSyncUngated(files_payload, current_files, new_files, sync_mode) ==
    IF sync_mode
    THEN LET unlisted == {f \in DOMAIN current_files :
                             f \notin DOMAIN new_files /\ f \notin DOMAIN files_payload}
         IN  [f \in DOMAIN files_payload \cup unlisted |->
                 IF f \in unlisted THEN Null ELSE files_payload[f]]
    ELSE files_payload

\* variant: the third loop runs whether or not sync mode is on
StageSyncAlways(files_payload, current_files, new_files, sync_mode) ==
    IF TruthyDict(new_files)
    THEN LET unlisted == {f \in DOMAIN current_files :
                             f \notin DOMAIN new_files /\ f \notin DOMAIN files_payload}
         IN  [f \in DOMAIN files_payload \cup unlisted |->
                 IF f \in unlisted THEN Null ELSE files_payload[f]]
    ELSE files_payload

\* the third loop: in sync mode, a tombstone for each gist file not in new_files
StageSync(files_payload, current_files, new_files, sync_mode) ==
    IF sync_mode /\ TruthyDict(new_files)
    THEN LET unlisted == {f \in DOMAIN current_files :
                             f \notin DOMAIN new_files /\ f \notin DOMAIN files_payload}
         IN  [f \in DOMAIN files_payload \cup unlisted |->
                 IF f \in unlisted THEN Null ELSE files_payload[f]]
    ELSE files_payload

\* variant: the third loop is left out
StageFilesNoSync(current_gist, new_files, files_to_remove, sync_mode) ==
    StageRemovals(StageNewFiles(current_gist.files, new_files),
                  current_gist.files, files_to_remove)

\* files_payload when the three loops are done
StageFiles(current_gist, new_files, files_to_remove, sync_mode) ==
    StageSync(
        StageRemovals(StageNewFiles(current_gist.files, new_files),
                      current_gist.files, files_to_remove),
        current_gist.files, new_files, sync_mode)

\* variant: "files" is set even when nothing is staged
MakePayloadAlwaysFiles(description, files_payload) ==
    IF description # None
        THEN [description |-> description[1], files |-> files_payload]
    ELSE [files |-> files_payload]

\* variant: the description is tested for truthiness, not against None
MakePayloadTruthyDescription(description, files_payload) ==
    IF description # None /\ description[1] # "" /\ TruthyDict(files_payload)
        THEN [description |-> description[1], files |-> files_payload]
    ELSE IF description # None /\ description[1] # ""
        THEN [description |-> description[1]]
    ELSE IF TruthyDict(files_payload)
        THEN [files |-> files_payload]
    ELSE EmptyDict

\* the payload dict: "description" if given, "files" if anything is staged
MakePayload(description, files_payload) ==
    IF description # None /\ TruthyDict(files_payload)
        THEN [description |-> description[1], files |-> files_payload]
    ELSE IF description # None
        THEN [description |-> description[1]]
    ELSE IF TruthyDict(files_payload)
        THEN [files |-> files_payload]
    ELSE EmptyDict

PrepareUpdatePayload(current_gist, new_files, files_to_remove, description, sync_mode) ==
    MakePayload(description,
                StageFiles(current_gist, new_files, files_to_remove, sync_mode))

\* payload.get("files", {})
PayloadFiles(payload) == IF "files" \in DOMAIN payload THEN payload.files ELSE EmptyDict

\* the names a files payload maps to null, and those it maps to a content
Tombstones(files_payload) == {f \in DOMAIN files_payload : files_payload[f] = Null}
Staged(files_payload) == {f \in DOMAIN files_payload : files_payload[f] # Null}

---------------------------------------------------------------------------
(* Strings: an ID or a URL is a sequence of one-character strings *)

LowerLetters == <<"a", "b", "c", "d", "e", "f", "g", "h", "i", "j", "k", "l", "m", "n", "o", "p", "q", "r", "s", "t", "u", "v", "w", "x", "y", "z">>
UpperLetters == <<"A", "B", "C", "D", "E", "F", "G", "H", "I", "J", "K", "L", "M", "N", "O", "P", "Q", "R", "S", "T", "U", "V", "W", "X", "Y", "Z">>
Digits == <<"0", "1", "2", "3", "4", "5", "6", "7", "8", "9">>

Range(s) == {s[i] : i \in DOMAIN s}
Whitespace == {" ", "\t", "\n"}

\* str.isalnum of one character
IsAlnumChar(c) == c \in Range(LowerLetters) \cup Range(UpperLetters) \cup Range(Digits)
\* str.isalnum: false of the empty string
IsAlnum(s) == Len(s) > 0 /\ \A i \in DOMAIN s : IsAlnumChar(s[i])

\* str.lower
LowerChar(c) ==
    IF c \in Range(UpperLetters)
    THEN LowerLetters[CHOOSE i \in DOMAIN UpperLetters : UpperLetters[i] = c]
    ELSE c
Lower(s) == [i \in DOMAIN s |-> LowerChar(s[i])]

\* str.strip
RECURSIVE LStrip(_)
LStrip(s) == IF s # <<>> /\ Head(s) \in Whitespace THEN LStrip(Tail(s)) ELSE s
RECURSIVE RStrip(_)
RStrip(s) ==
    IF s # <<>> /\ s[Len(s)] \in Whitespace THEN RStrip(SubSeq(s, 1, Len(s) - 1)) ELSE s
Strip(s) == RStrip(LStrip(s))

\* str.startswith, the operator in, str.count of one character
StartsWith(s, p) == Len(s) >= Len(p) /\ SubSeq(s, 1, Len(p)) = p
Contains(s, sub) ==
    \E i \in 1..(Len(s) + 1) :
        i + Len(sub) - 1 <= Len(s) /\ SubSeq(s, i, i + Len(sub) - 1) = sub
HasChar(s, c) == \E i \in DOMAIN s : s[i] = c
Count(s, c) == Cardinality({i \in DOMAIN s : s[i] = c})

\* s.replace(c, "")
Remove(s, c) == SelectSeq(s, LAMBDA x : x # c)

\* s.split(c): the list of the segments between the occurrences of c
RECURSIVE Split(_, _)
Split(s, c) ==
    IF ~HasChar(s, c) THEN <<s>>
    ELSE LET i == CHOOSE k \in DOMAIN s : s[k] = c /\ \A j \in 1..(k - 1) : s[j] # c
         IN  <<SubSeq(s, 1, i - 1)>> \o Split(SubSeq(s, i + 1, Len(s)), c)

\* n copies of the character c
Rep(c, n) == [i \in 1..n |-> c]

---------------------------------------------------------------------------
(* _is_valid_gist_id *)

MinIdLen == 8
MaxIdLen == 40
MaxHyphens == 4

InvalidPatterns ==
    {<<"i", "n", "v", "a", "l", "i", "d", "-", "g", "i", "s", "t", "-", "i", "d">>,
     <<"n", "o", "t", "-", "a", "-", "u", "r", "l">>,
     <<"t", "e", "s", "t", "-", "g", "i", "s", "t">>,
     <<"e", "x", "a", "m", "p", "l", "e", "-", "g", "i", "s", "t">>}

\* variant: the denylist is looked up without lowercasing the ID
IsValidGistIdCaseSensitive(gist_id) ==
    IF gist_id = <<>> \/ Len(gist_id) < MinIdLen THEN FALSE
    ELSE IF Len(gist_id) < MinIdLen \/ Len(gist_id) > MaxIdLen THEN FALSE
    ELSE IF HasChar(gist_id, " ") \/ HasChar(gist_id, ".") \/ HasChar(gist_id, "/") THEN FALSE
    ELSE IF ~IsAlnum(Remove(gist_id, "-")) THEN FALSE
    ELSE IF Count(gist_id, "-") > MaxHyphens THEN FALSE
    ELSE IF gist_id \in InvalidPatterns THEN FALSE
    ELSE TRUE

IsValidGistId(gist_id) ==
    IF gist_id = <<>> \/ Len(gist_id) < MinIdLen THEN FALSE
    ELSE IF Len(gist_id) < MinIdLen \/ Len(gist_id) > MaxIdLen THEN FALSE
    ELSE IF HasChar(gist_id, " ") \/ HasChar(gist_id, ".") \/ HasChar(gist_id, "/") THEN FALSE
    ELSE IF ~IsAlnum(Remove(gist_id, "-")) THEN FALSE
    ELSE IF Count(gist_id, "-") > MaxHyphens THEN FALSE
    ELSE IF Lower(gist_id) \in InvalidPatterns THEN FALSE
    ELSE TRUE

---------------------------------------------------------------------------
(* _extract_gist_id: the definition at the end of the class, which replaces *)
(* the earlier one of the same name                                         *)

Http == <<"h", "t", "t", "p">>
GistDomain == <<"g", "i", "s", "t", ".", "g", "i", "t", "h", "u", "b", ".", "c", "o", "m">>

Ok(id) == [ok |-> TRUE, id |-> id, error |-> "none"]
Raise(e) == [ok |-> FALSE, id |-> <<>>, error |-> e]

\* variant: the fragment is not cut off before the URL is split
ExtractFromGistUrlKeepFragment(url) ==
    LET parts == Split(url, "/")
        n == Len(parts)
        extracted_id == IF parts[n] # <<>> THEN parts[n]
                        ELSE IF n >= 5 THEN parts[n - 1] ELSE <<>>
    IN  IF /\ n >= 4
           /\ extracted_id # <<>>
           /\ ~StartsWith(extracted_id, GistDomain)
           /\ ~HasChar(extracted_id, ".")
        THEN Ok(extracted_id)
        ELSE Raise("unable to extract")

\* the branch for a URL of the gist domain
ExtractFromGistUrl(url) ==
    LET gist_id == IF HasChar(url, "#") THEN Split(url, "#")[1] ELSE url
        parts == Split(gist_id, "/")
        n == Len(parts)
        extracted_id == IF parts[n] # <<>> THEN parts[n]
                        ELSE IF n >= 5 THEN parts[n - 1] ELSE <<>>
    IN  IF /\ n >= 4
           /\ extracted_id # <<>>
           /\ ~StartsWith(extracted_id, GistDomain)
           /\ ~HasChar(extracted_id, ".")
        THEN Ok(extracted_id)
        ELSE Raise("unable to extract")

\* s.rstrip(c)
RECURSIVE RStripChar(_, _)
RStripChar(s, c) ==
    IF s # <<>> /\ s[Len(s)] = c THEN RStripChar(SubSeq(s, 1, Len(s) - 1), c) ELSE s

\* variant: the first definition of _extract_gist_id in the class, which the
\* later one replaces: the last segment of a gist URL or the stripped string,
\* with no validation
ExtractGistIdFirstDefinition(gist_id_or_url) ==
    IF Contains(gist_id_or_url, GistDomain)
    THEN LET parts == Split(RStripChar(gist_id_or_url, "/"), "/")
         IN  Ok(parts[Len(parts)])
    ELSE Ok(Strip(gist_id_or_url))

ExtractGistId(gist_id_or_url) ==
    IF gist_id_or_url = <<>> \/ Strip(gist_id_or_url) = <<>> THEN Raise("empty")
    ELSE LET gist_id == Strip(gist_id_or_url)
         IN  IF ~StartsWith(gist_id, Http)
             THEN IF ~IsValidGistId(gist_id) THEN Raise("invalid format") ELSE Ok(gist_id)
             ELSE IF Contains(gist_id, GistDomain) THEN ExtractFromGistUrl(gist_id)
             ELSE Raise("unable to extract")

---------------------------------------------------------------------------
(* One evaluation of _prepare_update_payload on arbitrary arguments *)

ReconInit ==
    \E g \in Snapshots, nf \in FileSets, rm \in RemoveLists,
       d \in OptDescriptions, s \in BOOLEAN :
        recon = [pc |-> "call", current_gist |-> g, new_files |-> nf,
                 files_to_remove |-> rm, description |-> d, sync_mode |-> s,
                 staged |-> EmptyDict, payload |-> EmptyDict]

ReconIdle ==
    recon = [pc |-> "idle", current_gist |-> GistOf(EmptyDict, ""), new_files |-> EmptyDict,
             files_to_remove |-> <<>>, description |-> None, sync_mode |-> FALSE,
             staged |-> EmptyDict, payload |-> EmptyDict]

\* the whole function body; staged keeps files_payload as the first loop left it
Prepare ==
    /\ recon.pc = "call"
    /\ recon' = [recon EXCEPT
           !.pc = "return",
           !.staged = StageNewFiles(recon.current_gist.files, recon.new_files),
           !.payload = PrepareUpdatePayload(recon.current_gist, recon.new_files,
                           recon.files_to_remove, recon.description, recon.sync_mode)]
    /\ UNCHANGED <<norm, remote, call, requests, reader, cli, account>>

---------------------------------------------------------------------------
(* One evaluation of _extract_gist_id on an ID or a URL *)

MaxBodyLen == 2

\* the characters a candidate is built from: alphanumeric, hyphen, and the
\* characters the validation and the URL parsing single out
BodyChars == {"a", "-", ".", " ", "/"}
Bodies == SeqsUpTo(BodyChars, MaxBodyLen)

\* fillers that bring a candidate next to the bounds of the validation rule:
\* on the lengths MinIdLen and MaxIdLen, and on MaxHyphens hyphens
Fillers ==
    {<<>>, Rep("0", MinIdLen - 2), Rep("0", MaxIdLen - 1),
     <<"0", "-", "0", "-", "0", "-", "0">>}

Candidates ==
    {p \o b \o f : p \in {<<>>, Http}, b \in Bodies, f \in Fillers}
        \cup InvalidPatterns \cup {<<"T", "e", "s", "t", "-", "G", "i", "s", "t">>}

Scheme == <<"h", "t", "t", "p", "s", ":", "/", "/">>
Url(host, user, candidate, slash, fragment) ==
    Scheme \o host \o user \o <<"/">> \o candidate \o slash \o fragment

OtherDomain == <<"g", "i", "t", "h", "u", "b", ".", "c", "o", "m">>
UrlUsers == {<<>>, <<"/", "o", "c", "t", "o">>}
UrlFragments == {<<>>, <<"#", "f", "/", "1">>}

\* how an input is put together: a bare candidate, or a URL around it
Shape(kind, candidate, user, slash, fragment) ==
    [kind |-> kind, candidate |-> candidate, user |-> user, slash |-> slash,
     fragment |-> fragment]

Shapes ==
    {Shape("bare", c, <<>>, <<>>, <<>>) : c \in Candidates}
        \cup {Shape("gist url", c, u, s, f) :
                c \in Candidates, u \in UrlUsers, s \in {<<>>, <<"/">>}, f \in UrlFragments}
        \cup {Shape("other url", c, u, <<>>, <<>>) : c \in Candidates, u \in UrlUsers}

\* the string of a shape
InputOf(shape) ==
    IF shape.kind = "bare" THEN shape.candidate
    ELSE Url(IF shape.kind = "gist url" THEN GistDomain ELSE OtherDomain,
             shape.user, shape.candidate, shape.slash, shape.fragment)

NormInit ==
    \E sh \in Shapes :
        norm = [pc |-> "call", shape |-> sh, input |-> InputOf(sh), result |-> Raise("none")]

NormIdle ==
    norm = [pc |-> "idle", shape |-> Shape("bare", <<>>, <<>>, <<>>, <<>>), input |-> <<>>,
            result |-> Raise("none")]

Extract ==
    /\ norm.pc = "call"
    /\ norm' = [norm EXCEPT !.pc = "return", !.result = ExtractGistId(norm.input)]
    /\ UNCHANGED <<recon, remote, call, requests, reader, cli, account>>

\* the boolean _is_valid_gist_id returns
Verdict(valid) == [ok |-> valid, id |-> <<>>, error |-> "none"]

\* one evaluation of _is_valid_gist_id on the same input
Validate ==
    /\ norm.pc = "call"
    /\ norm' = [norm EXCEPT !.pc = "validated", !.result = Verdict(IsValidGistId(norm.input))]
    /\ UNCHANGED <<recon, remote, call, requests, reader, cli, account>>

---------------------------------------------------------------------------
(* One evaluation of _read_files_from_paths on a list of paths *)

MaxPaths == 2

\* a path: a directory and a base name
Dirs == {"src", "docs"}
Paths == {[dir |-> d, name |-> n] : d \in Dirs, n \in Names}
PathLists == SeqsUpTo(Paths, MaxPaths)

\* what lies at a path: nothing, a file that is not UTF-8, or a text file
Missing == [exists |-> FALSE, utf8 |-> FALSE, content |-> ""]
Binary == [exists |-> TRUE, utf8 |-> FALSE, content |-> ""]
Text(content) == [exists |-> TRUE, utf8 |-> TRUE, content |-> content]
FileStates == {Missing, Binary} \cup {Text(c) : c \in Contents}

ReadOk(files_data) == [ok |-> TRUE, files |-> files_data, error |-> "none"]
ReadRaise(e) == [ok |-> FALSE, files |-> EmptyDict, error |-> e]

\* variant: a base name already read keeps its first content
RECURSIVE ReadLoopFirstWins(_, _, _)
ReadLoopFirstWins(files_data, file_paths, disk) ==
    IF file_paths = <<>> THEN ReadOk(files_data)
    ELSE LET path_obj == Head(file_paths)
         IN  IF ~disk[path_obj].exists THEN ReadRaise("FileNotFound")
             ELSE IF ~disk[path_obj].utf8 THEN ReadRaise("DecodeError")
             ELSE ReadLoopFirstWins(
                      IF path_obj.name \in DOMAIN files_data THEN files_data
                      ELSE Put(files_data, path_obj.name, disk[path_obj].content),
                      Tail(file_paths), disk)

\* the loop over file_paths: a missing path raises FileNotFoundError, a file
\* that does not decode raises, any other is stored under its base name
RECURSIVE ReadLoop(_, _, _)
ReadLoop(files_data, file_paths, disk) ==
    IF file_paths = <<>> THEN ReadOk(files_data)
    ELSE LET path_obj == Head(file_paths)
         IN  IF ~disk[path_obj].exists THEN ReadRaise("FileNotFound")
             ELSE IF ~disk[path_obj].utf8 THEN ReadRaise("DecodeError")
             ELSE ReadLoop(Put(files_data, path_obj.name, disk[path_obj].content),
                           Tail(file_paths), disk)

ReadFilesFromPaths(file_paths, disk) == ReadLoop(EmptyDict, file_paths, disk)

ReaderInit ==
    \E ps \in PathLists :
        \E disk \in [Range(ps) -> FileStates] :
            reader = [pc |-> "call", file_paths |-> ps, disk |-> disk,
                      result |-> ReadRaise("none")]

ReaderIdle ==
    reader = [pc |-> "idle", file_paths |-> <<>>, disk |-> EmptyDict,
              result |-> ReadRaise("none")]

ReadFiles ==
    /\ reader.pc = "call"
    /\ reader' = [reader EXCEPT !.pc = "return",
                      !.result = ReadFilesFromPaths(reader.file_paths, reader.disk)]
    /\ UNCHANGED <<recon, norm, remote, call, requests, cli, account>>

---------------------------------------------------------------------------
(* The remote API and the calls of GistManager *)

\* responses other than success: a status with GitHub's message, or no
\* response at all (requests.exceptions.RequestException)
Failures ==
    {[status |-> 401, message |-> "Bad credentials"],
     [status |-> 403, message |-> "API rate limit exceeded"],
     [status |-> 403, message |-> "Forbidden"],
     [status |-> 404, message |-> "Not Found"],
     [status |-> 422, message |-> "Validation Failed"],
     [status |-> 500, message |-> "Server Error"],
     [status |-> 0, message |-> "RequestException"]}

\* "rate limit" in error_data.get("message", "").lower()
IsRateLimit(r) == r.message = "API rate limit exceeded"

\* get_gist: the exception raised for a response other than 200
GetError(r) ==
    IF r.status = 0 THEN "NetworkError"
    ELSE IF r.status = 401 THEN "AuthFailed"
    ELSE IF r.status = 403 THEN (IF IsRateLimit(r) THEN "RateLimited" ELSE "Forbidden")
    ELSE IF r.status = 404 THEN "NotFound"
    ELSE "Failed"

\* update_gist: the exception raised for a PATCH response other than 200
UpdateGistError(r) ==
    IF r.status = 0 THEN "NetworkError"
    ELSE IF r.status = 401 THEN "AuthFailed"
    ELSE IF r.status = 403 THEN (IF IsRateLimit(r) THEN "RateLimited" ELSE "Forbidden")
    ELSE IF r.status = 404 THEN "NotFound"
    ELSE IF r.status = 422 THEN "ValidationFailed"
    ELSE "Failed"

\* update_from_directory, sync branch: the exception raised for a PATCH
\* response other than 200
SyncUpdateError(r) == IF r.status = 0 THEN "NetworkError" ELSE "Failed"

\* PATCH /gists/{id} on the remote gist: a null deletes the file, a content
\* creates or replaces it, a description replaces the description
ApplyPatch(gist, payload) ==
    LET fp == PayloadFiles(payload)
        kept == (DOMAIN gist.files \cup Staged(fp)) \ Tombstones(fp)
    IN  [files |-> [f \in kept |-> IF f \in DOMAIN fp THEN fp[f].content ELSE gist.files[f]],
         description |-> IF "description" \in DOMAIN payload
                         THEN payload.description ELSE gist.description]

\* identifiers the normalizer accepts: a bare ID and a gist URL
GoodIds ==
    {<<"a", "b", "c", "1", "2", "3", "4", "5">>,
     <<"h", "t", "t", "p", "s", ":", "/", "/", "g", "i", "s", "t", ".", "g", "i", "t", "h", "u", "b", ".", "c", "o", "m", "/", "o", "c", "t", "o", "/", "a", "b", "c">>}

\* identifiers that are not gist IDs: too short, empty, blank, a URL of
\* another domain, a gist URL with no ID, a denylisted placeholder
BadIds ==
    {<<"i", "n", "v", "a", "l", "i", "d">>,
     <<>>,
     <<" ", " ">>,
     <<"h", "t", "t", "p", "s", ":", "/", "/", "g", "i", "t", "h", "u", "b", ".", "c", "o", "m", "/", "u", "s", "e", "r", "/", "r", "e", "p", "o">>,
     <<"h", "t", "t", "p", "s", ":", "/", "/", "g", "i", "s", "t", ".", "g", "i", "t", "h", "u", "b", ".", "c", "o", "m", "/">>,
     <<"t", "e", "s", "t", "-", "g", "i", "s", "t">>}

\* the identifiers get_gist and the updates are given
ClientIds == GoodIds \cup BadIds

\* the identifiers delete_gist is given: those, and the other strings its
\* test takes for invalid
DeleteIds ==
    ClientIds \cup {<<"1", "2", "3">>,
                    <<"n", "o", "t", "-", "a", "-", "g", "i", "s", "t", "-", "i", "d">>}

\* the identifiers a batch is made of: a bare ID, a gist URL around a valid
\* ID, a gist URL around a short one, and a string that is no ID
BatchIds ==
    {<<"a", "b", "c", "1", "2", "3", "4", "5">>,
     <<"h", "t", "t", "p", "s", ":", "/", "/", "g", "i", "s", "t", ".", "g", "i", "t", "h", "u", "b", ".", "c", "o", "m", "/", "a", "b", "c", "d", "e", "f", "0", "1">>,
     <<"h", "t", "t", "p", "s", ":", "/", "/", "g", "i", "s", "t", ".", "g", "i", "t", "h", "u", "b", ".", "c", "o", "m", "/", "o", "c", "t", "o", "/", "a", "b", "c">>,
     <<"i", "n", "v", "a", "l", "i", "d">>}

MaxBatch == 2
BatchLists == SeqsUpTo(BatchIds, MaxBatch)

\* the gists of the account, in the order the API lists them: two that the
\* batches name, one public and one secret, and one that no call names
AccountGists ==
    <<[id |-> <<"a", "b", "c", "1", "2", "3", "4", "5">>, public |-> TRUE],
      [id |-> <<"a", "b", "c", "d", "e", "f", "0", "1">>, public |-> FALSE],
      [id |-> <<"0", "a", "1", "b", "2", "c", "3", "d">>, public |-> TRUE]>>
AccountIds == {AccountGists[k].id : k \in DOMAIN AccountGists}

\* an account holding the gists ids, none deleted yet
Holding(ids) == [id \in ids |-> TRUE]
Accounts == {Holding(ids) : ids \in SUBSET AccountIds}

\* the accounts a batch runs against: they hold the gist that no call names
BatchAccounts == {acc \in Accounts : AccountGists[3].id \in DOMAIN acc}

\* the gists of the account acc that exist
Existing(acc) == {id \in DOMAIN acc : acc[id]}

\* the gists the account holds, as GET /gists lists them
Listing(acc) == SelectSeq(AccountGists, LAMBDA g : g.id \in Existing(acc))

\* list_gists: the default of per_page and GitHub's limit
DefaultPerPage == 30
MaxPerPage == 100

\* limit of list_gists: None or an int, below, on and above the range 1..100
Limits == {None} \cup {Some(l) : l \in {-5, 0, 1, 2, DefaultPerPage, MaxPerPage, 150}}
Visibilities == {None, Some("public"), Some("private")}
Sinces == {None, Some("2024-01-01T00:00:00Z")}
Pages == {1, 2}

\* min(a, b)
Min(a, b) == IF a <= b THEN a ELSE b

\* per_page = limit if limit else 30; actual_per_page = min(per_page, 100)
ActualPerPage(limit) ==
    LET per_page == IF limit # None /\ limit[1] # 0 THEN limit[1] ELSE DefaultPerPage
    IN  Min(per_page, MaxPerPage)

\* params of the GET: per_page and page, and since when it is given
ListParams(args) ==
    LET params == [per_page |-> ActualPerPage(args.limit), page |-> args.page]
    IN  IF args.since # None THEN params @@ ("since" :> args.since[1]) ELSE params

\* GET /gists: the page of the account's gists the params ask for; the API
\* takes its default for a per_page outside its range
ApiPage(acc, params) ==
    LET size == IF params.per_page \in 1..MaxPerPage THEN params.per_page ELSE DefaultPerPage
        all == Listing(acc)
    IN  SubSeq(all, (params.page - 1) * size + 1, Min(params.page * size, Len(all)))

\* the dict list_gists returns for the gists of a response
ListResult(gists, args) ==
    [gists |-> gists, total_count |-> Len(gists), page |-> args.page,
     per_page |-> ActualPerPage(args.limit),
     has_more |-> (Len(gists) = ActualPerPage(args.limit))]
NoListing == [gists |-> <<>>, total_count |-> 0, page |-> 0, per_page |-> 0, has_more |-> FALSE]

\* files_to_remove of a call: at most one filename
ClientRemoveLists == {<<>>} \cup {<<n>> : n \in Names}

Args(op, gist_id, files, files_to_remove, description, sync, dir_exists) ==
    [op |-> op, gist_id |-> gist_id, files |-> files, files_to_remove |-> files_to_remove,
     description |-> description, sync |-> sync, dir_exists |-> dir_exists,
     gist_ids |-> <<>>,
     visibility |-> None, since |-> None, limit |-> None, page |-> 1, fetch_all |-> FALSE]

\* get_gist(gist_id)
GetGistArgs == {Args("get_gist", id, EmptyDict, <<>>, None, FALSE, TRUE) : id \in ClientIds}

\* update_gist(gist_id, files, description, files_to_remove)
UpdateGistArgs ==
    {Args("update_gist", id, fs, rm, d, FALSE, TRUE) :
        id \in ClientIds, fs \in FileSets, rm \in ClientRemoveLists, d \in OptDescriptions}

\* update_from_directory(gist_id, directory, patterns, description, sync); files
\* is what the directory holds under the patterns, by base name
UpdateFromDirectoryArgs ==
    {Args("update_from_directory", id, fs, <<>>, d, s, TRUE) :
        id \in ClientIds, fs \in FileSets, d \in OptDescriptions, s \in BOOLEAN}
    \cup {Args("update_from_directory", id, EmptyDict, <<>>, d, s, FALSE) :
        id \in ClientIds, d \in OptDescriptions, s \in BOOLEAN}

NoArgs == Args("none", <<>>, EmptyDict, <<>>, None, FALSE, TRUE)

\* create_gist(files, description, public)
CreateGistArgs ==
    {Args("create_gist", <<>>, fs, <<>>, Some(d), FALSE, TRUE) :
        fs \in FileSets, d \in Descriptions}

\* delete_gist(gist_id)
DeleteGistArgs ==
    {Args("delete_gist", id, EmptyDict, <<>>, None, FALSE, TRUE) : id \in DeleteIds}

\* delete_gists_batch(gist_ids)
DeleteGistsBatchArgs ==
    {[NoArgs EXCEPT !.op = "delete_gists_batch", !.gist_ids = ids] : ids \in BatchLists}

\* list_gists(visibility, since, limit, page, fetch_all)
ListGistsArgs ==
    {[NoArgs EXCEPT !.op = "list_gists", !.visibility = v, !.since = s, !.limit = l,
                    !.page = p, !.fetch_all = a] :
        v \in Visibilities, s \in Sinces, l \in Limits, p \in Pages, a \in BOOLEAN}

\* no response received yet
NoResponse == [status |-> 0, message |-> "none"]
Success(status) == [status |-> status, message |-> "OK"]

\* the results dict of delete_gists_batch
Results(success, deleted, failed, total, num_deleted, num_failed) ==
    [success |-> success, deleted |-> deleted, failed |-> failed,
     summary |-> [total |-> total, deleted |-> num_deleted, failed |-> num_failed]]
NoResults == Results(FALSE, <<>>, <<>>, 0, 0, 0)

\* a call at its entry; attempt counts the runs of the same call
Entry(args, attempt) ==
    [pc |-> "entry", attempt |-> attempt, args |-> args, fetched |-> FALSE,
     current_gist |-> GistOf(EmptyDict, ""), payload |-> EmptyDict, result |-> "none",
     response |-> NoResponse, i |-> 0, results |-> NoResults, listing |-> NoListing]

Request(method, id, body) == [method |-> method, id |-> id, body |-> body]

Return(result) == call' = [call EXCEPT !.pc = "done", !.result = result]

\* variant: a failed request is sent once more instead of raising
FailWithRetry(r, error) ==
    IF Len(requests) < 3
    THEN /\ requests' = Append(requests, requests[Len(requests)])
         /\ call' = [call EXCEPT !.response = r]
    ELSE /\ call' = [call EXCEPT !.pc = "done", !.result = error, !.response = r]
         /\ UNCHANGED requests

\* the response r makes the call raise: no further request is issued
FailWith(r, error) ==
    /\ call' = [call EXCEPT !.pc = "done", !.result = error, !.response = r]
    /\ UNCHANGED requests

\* the exception an identifier makes _extract_gist_id (or the validation of
\* delete_gist) raise
IdentifierError(e) ==
    IF e = "unable to extract" THEN "UnresolvableIdentifier" ELSE "InvalidIdentifier"

\* get_gist up to its request: the ID is normalized, then the GET is sent
SendGet ==
    LET clean_gist_id == ExtractGistId(call.args.gist_id)
    IN  IF clean_gist_id.ok
        THEN /\ requests' = Append(requests, Request("GET", clean_gist_id.id, EmptyDict))
             /\ call' = [call EXCEPT !.pc = "get"]
        ELSE /\ Return(IdentifierError(clean_gist_id.error))
             /\ UNCHANGED requests

\* a client calls get_gist
GetGistBegin ==
    /\ call.pc = "entry"
    /\ call.args.op = "get_gist"
    /\ SendGet
    /\ UNCHANGED <<recon, norm, remote, reader, cli, account>>

\* a client calls update_gist
UpdateGistBegin ==
    /\ call.pc = "entry"
    /\ call.args.op = "update_gist"
    /\ SendGet
    /\ UNCHANGED <<recon, norm, remote, reader, cli, account>>

\* a client calls update_from_directory: the directory is scanned and read,
\* then the gist is fetched (by the sync branch itself or by update_gist)
UpdateFromDirectoryBegin ==
    /\ call.pc = "entry"
    /\ call.args.op = "update_from_directory"
    /\ IF ~call.args.dir_exists
       THEN Return("DirectoryNotFound") /\ UNCHANGED requests
       ELSE IF ~TruthyDict(call.args.files)
       THEN Return("NoFilesFound") /\ UNCHANGED requests
       ELSE SendGet
    /\ UNCHANGED <<recon, norm, remote, reader, cli, account>>

\* the GET fails: get_gist raises, and so does its caller
GetFails ==
    /\ call.pc = "get"
    /\ \E r \in Failures : FailWith(r, GetError(r))
    /\ UNCHANGED <<recon, norm, remote, reader, cli, account>>

\* variant: the gist an update works from is not the one the GET returned
StaleGist == GistOf(EmptyDict, "old desc")

\* response.json() of the GET: the remote gist as it is
FetchedGist == GistOf(remote.files, remote.description)

\* the GET returns 200 to get_gist
GetGistReturns ==
    /\ call.pc = "get"
    /\ call.args.op = "get_gist"
    /\ call' = [call EXCEPT !.pc = "done", !.result = "ok", !.fetched = TRUE,
                            !.current_gist = FetchedGist, !.response = Success(200)]
    /\ UNCHANGED <<recon, norm, remote, requests, reader, cli, account>>

\* the GET returns 200 to an update: the payload is prepared from the gist
\* returned, an empty payload is refused, any other is sent
UpdatePrepares ==
    /\ call.pc = "get"
    /\ call.args.op \in {"update_gist", "update_from_directory"}
    /\ LET current_gist == FetchedGist
           payload == PrepareUpdatePayload(current_gist, call.args.files,
                          call.args.files_to_remove, call.args.description, call.args.sync)
           clean_gist_id == ExtractGistId(call.args.gist_id)
       IN  IF ~TruthyDict(payload)
           THEN /\ call' = [call EXCEPT !.pc = "done", !.result = "NoChanges",
                                !.fetched = TRUE, !.current_gist = current_gist,
                                !.payload = payload, !.response = Success(200)]
                /\ UNCHANGED requests
           ELSE IF ~clean_gist_id.ok
           THEN /\ call' = [call EXCEPT !.pc = "done",
                                !.result = IdentifierError(clean_gist_id.error),
                                !.fetched = TRUE, !.current_gist = current_gist,
                                !.payload = payload, !.response = Success(200)]
                /\ UNCHANGED requests
           ELSE /\ call' = [call EXCEPT !.pc = "patch", !.fetched = TRUE,
                                !.current_gist = current_gist, !.payload = payload,
                                !.response = Success(200)]
                /\ requests' = Append(requests, Request("PATCH", clean_gist_id.id, payload))
    /\ UNCHANGED <<recon, norm, remote, reader, cli, account>>

\* the exception an update raises for a failed PATCH
PatchError(args, r) ==
    IF args.op = "update_from_directory" /\ args.sync
    THEN SyncUpdateError(r) ELSE UpdateGistError(r)

\* the PATCH fails: the remote gist is as it was
PatchFails ==
    /\ call.pc = "patch"
    /\ \E r \in Failures : FailWith(r, PatchError(call.args, r))
    /\ UNCHANGED <<recon, norm, remote, reader, cli, account>>

\* the PATCH returns 200: the remote gist is updated
PatchSucceeds ==
    /\ call.pc = "patch"
    /\ remote' = ApplyPatch(remote, call.payload)
    /\ call' = [call EXCEPT !.pc = "done", !.result = "ok", !.response = Success(200)]
    /\ UNCHANGED <<recon, norm, requests, reader, cli, account>>

\* what another client's PATCH of the same gist may carry: a content or a
\* null for one file
OtherPayloads ==
    {[files |-> (n :> [content |-> c])] : n \in Names, c \in Contents}
        \cup {[files |-> (n :> Null)] : n \in Names}

\* another client changes the gist after this call's GET has returned and
\* before its PATCH is applied
Interfere ==
    /\ call.pc = "patch"
    /\ \E payload \in OtherPayloads :
           /\ ApplyPatch(remote, payload) # remote
           /\ remote' = ApplyPatch(remote, payload)
    /\ UNCHANGED <<recon, norm, call, requests, reader, cli, account>>

\* the caller runs the update it has just applied once more
Repeat ==
    /\ call.pc = "done"
    /\ call.attempt = 1
    /\ call.result = "ok"
    /\ call.args.op \in {"update_gist", "update_from_directory"}
    /\ call' = Entry(call.args, 2)
    /\ requests' = <<>>
    /\ UNCHANGED <<recon, norm, remote, reader, cli, account>>

\* the payload of create_gist
CreatePayload(files, description, public) ==
    [description |-> description, public |-> public,
     files |-> [f \in DOMAIN files |-> [content |-> files[f]]]]

\* create_gist: the exception raised for a response other than 201
CreateError(r) ==
    IF r.status = 0 THEN "NetworkError"
    ELSE IF r.status = 401 THEN "AuthFailed"
    ELSE IF r.status = 403 THEN (IF IsRateLimit(r) THEN "RateLimited" ELSE "Forbidden")
    ELSE "Failed"

\* a client calls create_gist: without a file it raises, else the POST is sent
CreateGistBegin ==
    /\ call.pc = "entry"
    /\ call.args.op = "create_gist"
    /\ IF ~TruthyDict(call.args.files)
       THEN Return("NoFiles") /\ UNCHANGED requests
       ELSE /\ requests' = Append(requests,
                   Request("POST", <<>>,
                       CreatePayload(call.args.files, call.args.description[1], FALSE)))
            /\ call' = [call EXCEPT !.pc = "post"]
    /\ UNCHANGED <<recon, norm, remote, reader, cli, account>>

\* the POST returns 201: the new gist is another gist than the remote one
CreateSucceeds ==
    /\ call.pc = "post"
    /\ call' = [call EXCEPT !.pc = "done", !.result = "ok", !.response = Success(201)]
    /\ UNCHANGED <<recon, norm, remote, requests, reader, cli, account>>

CreateFails ==
    /\ call.pc = "post"
    /\ \E r \in Failures : FailWith(r, CreateError(r))
    /\ UNCHANGED <<recon, norm, remote, reader, cli, account>>

\* list_gists: the exception raised for a response other than 200
ListError(r) == IF r.status = 0 THEN "NetworkError" ELSE "Failed"

\* a client calls list_gists: one GET of /gists, whatever fetch_all is
ListGistsBegin ==
    /\ call.pc = "entry"
    /\ call.args.op = "list_gists"
    /\ requests' = Append(requests, Request("GET", <<>>, ListParams(call.args)))
    /\ call' = [call EXCEPT !.pc = "list"]
    /\ UNCHANGED <<recon, norm, remote, reader, cli, account>>

\* the GET returns 200: the gists of the response are returned as they are
ListSucceeds ==
    /\ call.pc = "list"
    /\ call' = [call EXCEPT !.pc = "done", !.result = "ok", !.response = Success(200),
                    !.listing = ListResult(ApiPage(account, requests[Len(requests)].body),
                                           call.args)]
    /\ UNCHANGED <<recon, norm, remote, requests, reader, cli, account>>

ListFails ==
    /\ call.pc = "list"
    /\ \E r \in Failures : FailWith(r, ListError(r))
    /\ UNCHANGED <<recon, norm, remote, reader, cli, account>>

\* delete_gist up to its request: the ID is normalized, then validated
DeleteTarget(gist_id) ==
    LET clean_gist_id == ExtractGistId(gist_id)
    IN  IF ~clean_gist_id.ok THEN clean_gist_id
        ELSE IF ~IsValidGistId(clean_gist_id.id) THEN Raise("invalid format")
        ELSE clean_gist_id

\* delete_gist: the exception raised for a response other than 204
DeleteError(r) ==
    IF r.status = 0 THEN "NetworkError"
    ELSE IF r.status = 404 THEN "NotFound"
    ELSE IF r.status = 403 THEN "Forbidden"
    ELSE IF r.status = 401 THEN "AuthFailed"
    ELSE "Failed"

\* DELETE /gists/{id} answers 204 for a gist the account holds, and the gist
\* is gone
Deletes(id) ==
    /\ id \in Existing(account)
    /\ account' = [account EXCEPT ![id] = FALSE]

\* the other answers to DELETE /gists/{id}: 404 for a gist the account does not
\* hold, or any failure that does not depend on the gist
DeleteFailures(id) == {r \in Failures : r.status = 404 => id \notin Existing(account)}

\* a client calls delete_gist
DeleteGistBegin ==
    /\ call.pc = "entry"
    /\ call.args.op = "delete_gist"
    /\ LET target == DeleteTarget(call.args.gist_id)
       IN  IF ~target.ok
           THEN Return(IdentifierError(target.error)) /\ UNCHANGED requests
           ELSE /\ requests' = Append(requests, Request("DELETE", target.id, EmptyDict))
                /\ call' = [call EXCEPT !.pc = "delete"]
    /\ UNCHANGED <<recon, norm, remote, reader, cli, account>>

\* the DELETE returns 204: delete_gist returns its success marker
DeleteSucceeds ==
    /\ call.pc = "delete"
    /\ Deletes(requests[Len(requests)].id)
    /\ call' = [call EXCEPT !.pc = "done", !.result = "ok", !.response = Success(204)]
    /\ UNCHANGED <<recon, norm, remote, requests, reader, cli>>

DeleteFails ==
    /\ call.pc = "delete"
    /\ \E r \in DeleteFailures(requests[Len(requests)].id) : FailWith(r, DeleteError(r))
    /\ UNCHANGED <<recon, norm, remote, reader, cli, account>>

\* a client calls delete_gists_batch: the results dict is set up
BatchBegin ==
    /\ call.pc = "entry"
    /\ call.args.op = "delete_gists_batch"
    /\ call' = [call EXCEPT !.pc = "loop", !.i = 1,
                    !.results = Results(FALSE, <<>>, <<>>, Len(call.args.gist_ids), 0, 0)]
    /\ UNCHANGED <<recon, norm, remote, requests, reader, cli, account>>

\* variant: the exception of delete_gist leaves the batch
BatchFailedAborts(gist_id, error) ==
    call' = [call EXCEPT !.pc = "done", !.result = error]

\* variant: the failure is recorded and not counted
BatchFailedUncounted(gist_id, error) ==
    call' = [call EXCEPT
        !.pc = "loop", !.i = call.i + 1,
        !.results.failed = Append(call.results.failed, [gist_id |-> gist_id, error |-> error])]

\* the except branch of the loop: the failure is recorded under the ID as given
BatchFailed(gist_id, error) ==
    call' = [call EXCEPT
        !.pc = "loop", !.i = call.i + 1,
        !.results.failed = Append(call.results.failed, [gist_id |-> gist_id, error |-> error]),
        !.results.summary.failed = call.results.summary.failed + 1]

\* the try branch of the loop: the deletion is recorded under the clean ID
BatchDeleted(clean_gist_id) ==
    call' = [call EXCEPT
        !.pc = "loop", !.i = call.i + 1,
        !.results.deleted = Append(call.results.deleted,
            [gist_id |-> clean_gist_id, message |-> "Gist deleted successfully"]),
        !.results.summary.deleted = call.results.summary.deleted + 1]

\* variant: an ID the list has named before is passed over
BatchNextSkipsRepeated ==
    /\ call.pc = "loop"
    /\ call.i <= Len(call.args.gist_ids)
    /\ LET gist_id == call.args.gist_ids[call.i]
           target == DeleteTarget(gist_id)
       IN  IF \E j \in 1..(call.i - 1) : call.args.gist_ids[j] = gist_id
           THEN call' = [call EXCEPT !.i = call.i + 1] /\ UNCHANGED requests
           ELSE IF ~target.ok
           THEN BatchFailed(gist_id, IdentifierError(target.error)) /\ UNCHANGED requests
           ELSE /\ requests' = Append(requests, Request("DELETE", target.id, EmptyDict))
                /\ call' = [call EXCEPT !.pc = "batch delete"]
    /\ UNCHANGED <<recon, norm, remote, reader, cli, account>>

\* the loop takes the next ID and calls delete_gist: an ID that is refused is
\* recorded as failed, for any other the DELETE is sent
BatchNext ==
    /\ call.pc = "loop"
    /\ call.i <= Len(call.args.gist_ids)
    /\ LET gist_id == call.args.gist_ids[call.i]
           target == DeleteTarget(gist_id)
       IN  IF ~target.ok
           THEN BatchFailed(gist_id, IdentifierError(target.error)) /\ UNCHANGED requests
           ELSE /\ requests' = Append(requests, Request("DELETE", target.id, EmptyDict))
                /\ call' = [call EXCEPT !.pc = "batch delete"]
    /\ UNCHANGED <<recon, norm, remote, reader, cli, account>>

\* the DELETE of the loop returns 204
BatchDeleteSucceeds ==
    /\ call.pc = "batch delete"
    /\ Deletes(requests[Len(requests)].id)
    /\ BatchDeleted(requests[Len(requests)].id)
    /\ UNCHANGED <<recon, norm, remote, requests, reader, cli>>

\* the DELETE of the loop fails: delete_gist raises, the loop goes on
BatchDeleteFails ==
    /\ call.pc = "batch delete"
    /\ \E r \in DeleteFailures(requests[Len(requests)].id) :
           BatchFailed(call.args.gist_ids[call.i], DeleteError(r))
    /\ UNCHANGED <<recon, norm, remote, requests, reader, cli, account>>

\* the loop is over: success is set and the results are returned
BatchReturns ==
    /\ call.pc = "loop"
    /\ call.i > Len(call.args.gist_ids)
    /\ call' = [call EXCEPT !.pc = "done", !.result = "ok",
                    !.results.success = (call.results.summary.failed = 0)]
    /\ UNCHANGED <<recon, norm, remote, requests, reader, cli, account>>

\* the calls that read or change the remote gist start from any gist, the
\* calls that delete or list gists from any set of gists of the account; the
\* responses to create_gist depend on neither
ClientInit ==
    /\ \/ /\ \E fs \in FileSets : remote = [files |-> fs, description |-> "old desc"]
          /\ account = Holding(AccountIds)
          /\ \E a \in GetGistArgs \cup UpdateGistArgs \cup UpdateFromDirectoryArgs :
                 call = Entry(a, 1)
       \/ /\ remote = [files |-> EmptyDict, description |-> "old desc"]
          /\ account = Holding(AccountIds)
          /\ \E a \in CreateGistArgs : call = Entry(a, 1)
       \/ /\ remote = [files |-> EmptyDict, description |-> "old desc"]
          /\ account \in Accounts
          /\ \E a \in DeleteGistArgs \cup ListGistsArgs : call = Entry(a, 1)
       \/ /\ remote = [files |-> EmptyDict, description |-> "old desc"]
          /\ account \in BatchAccounts
          /\ \E a \in DeleteGistsBatchArgs : call = Entry(a, 1)
    /\ requests = <<>>

ClientIdle ==
    /\ remote = [files |-> EmptyDict, description |-> ""]
    /\ call = [Entry(NoArgs, 0) EXCEPT !.pc = "idle"]
    /\ requests = <<>>
    /\ account = Holding({})

---------------------------------------------------------------------------
(* The commands of the command line *)

CliIdle == cli = [pc |-> "idle"]

\* exit_code while the command runs
Running == -1

\* GIST_ID of update and delete: an ID of the account, and a string that is
\* no ID
CliIds == {AccountGists[1].id, <<"i", "n", "v", "a", "l", "i", "d">>}

\* FILES and --add of update: click takes existing paths only; the file at a
\* path is a text file or is not UTF-8
SrcPath(name) == [dir |-> "src", name |-> name]
CliFiles == {<<>>, <<SrcPath("main.py")>>}
CliAdds == {<<>>, <<SrcPath("README.md")>>}
CliDisks ==
    {(SrcPath("main.py") :> f) @@ (SrcPath("README.md") :> Text("A\n")) :
        f \in {Text("A\n"), Binary}}
CliRemoves == {<<>>, <<"README.md">>}
CliDescriptions == {None, Some("new desc")}

\* what the directory of --from-dir holds under the patterns, by base name
CliDirFiles == {EmptyDict, ("main.py" :> "A\n")}

\* the lines of the file of --from-file: no file, an ID on a line of its own,
\* a blank line
CliFromFiles ==
    {<<>>,
     <<AccountGists[2].id \o <<"\n">>>>,
     <<<<" ", "\n">>>>}
CliGistIds == {<<>>} \cup {<<id>> : id \in CliIds}

\* the options of a command, with the defaults of the other command's
NoOptions ==
    [command |-> "none", token_found |-> TRUE, gist_id |-> <<>>, files |-> <<>>,
     add |-> <<>>, disk |-> EmptyDict, remove |-> <<>>, description |-> None,
     from_dir |-> FALSE, patterns |-> FALSE, dir_files |-> EmptyDict, sync |-> FALSE,
     dry_run |-> FALSE, force |-> FALSE, gist_ids |-> <<>>, from_file |-> <<>>,
     quiet |-> FALSE, output |-> "text"]

\* gist update GIST_ID [FILES] [--description] [--from-dir] [--patterns] [--add]
\* [--remove] [--sync] [--dry-run] [--force]
UpdateCommands ==
    {[NoOptions EXCEPT !.command = "update", !.token_found = t, !.gist_id = id,
                       !.files = fs, !.add = ad, !.disk = dk, !.remove = rm,
                       !.description = d, !.from_dir = fd, !.patterns = pt,
                       !.dir_files = df, !.sync = sy, !.dry_run = dr, !.force = fo] :
        t \in BOOLEAN, id \in CliIds, fs \in CliFiles, ad \in CliAdds, dk \in CliDisks,
        rm \in CliRemoves, d \in CliDescriptions, fd \in BOOLEAN, pt \in BOOLEAN,
        df \in CliDirFiles, sy \in BOOLEAN, dr \in BOOLEAN, fo \in BOOLEAN}

\* gist delete [GIST_IDS] [--force] [--from-file] [--dry-run] [--quiet] [--output]
DeleteCommands ==
    {[NoOptions EXCEPT !.command = "delete", !.token_found = t, !.gist_ids = ids,
                       !.from_file = ff, !.dry_run = dr, !.force = fo, !.quiet = q,
                       !.output = o] :
        t \in BOOLEAN, ids \in CliGistIds, ff \in CliFromFiles, dr \in BOOLEAN,
        fo \in BOOLEAN, q \in BOOLEAN, o \in {"text", "json"}}

\* a command at its start: the fields of its options, and its position
Started(options) ==
    [x \in DOMAIN options \cup {"pc", "exit_code", "answer"} |->
        IF x = "pc" THEN "start"
        ELSE IF x = "exit_code" THEN Running
        ELSE IF x = "answer" THEN "none"
        ELSE options[x]]

\* what a command does next: it exits, it prompts, or it calls GistManager
Exit(code) == [do |-> "exit", code |-> code, args |-> NoArgs]
Prompt == [do |-> "prompt", code |-> Running, args |-> NoArgs]
CallManager(args) == [do |-> "call", code |-> Running, args |-> args]

\* the answers to click.confirm and click.prompt: the confirmation, anything
\* else, and no input (click.Abort)
Answers == {"yes", "no", "abort"}

\* dict.update
DictUpdate(d, e) == [k \in DOMAIN d \cup DOMAIN e |-> IF k \in DOMAIN e THEN e[k] ELSE d[k]]

\* files_to_update: FILES read, then updated with the files of --add
ReadFails(c) ==
    \/ ~ReadFilesFromPaths(c.files, c.disk).ok
    \/ ~ReadFilesFromPaths(c.add, c.disk).ok
FilesToUpdate(c) ==
    DictUpdate(ReadFilesFromPaths(c.files, c.disk).files,
               ReadFilesFromPaths(c.add, c.disk).files)

\* not files_to_update and not files_to_remove_list and description is None
NothingToUpdate(c) ==
    ~TruthyDict(FilesToUpdate(c)) /\ ~TruthyList(c.remove) /\ c.description = None

GetGistCall(c) ==
    CallManager(Args("get_gist", c.gist_id, EmptyDict, <<>>, None, FALSE, TRUE))
UpdateGistCall(c) ==
    CallManager(Args("update_gist", c.gist_id, FilesToUpdate(c), c.remove,
                     c.description, FALSE, TRUE))
UpdateFromDirectoryCall(c) ==
    CallManager(Args("update_from_directory", c.gist_id, c.dir_files, <<>>,
                     c.description, c.sync, TRUE))

\* variant: --dry-run is not looked at in the --from-dir mode
FromDirStepDryRunIgnored(c) == UpdateFromDirectoryCall(c)

\* update with --from-dir: a dry run fetches the gist, any other run calls
\* update_from_directory
FromDirStep(c) == IF c.dry_run THEN GetGistCall(c) ELSE UpdateFromDirectoryCall(c)

\* update with individual files: a dry run fetches the gist, any other run
\* asks for confirmation unless --force is given
IndividualStep(c) ==
    IF c.dry_run
    THEN IF NothingToUpdate(c) THEN Exit(1) ELSE GetGistCall(c)
    ELSE IF NothingToUpdate(c) THEN Exit(1)
    ELSE IF ~c.force /\ ~c.dry_run THEN Prompt
    ELSE UpdateGistCall(c)

\* the update command up to its first call or prompt
UpdatePlan(c) ==
    IF ~c.token_found THEN Exit(1)
    ELSE IF c.from_dir /\ TruthyList(c.files) THEN Exit(1)
    ELSE IF c.from_dir /\ ~c.patterns THEN Exit(1)
    ELSE IF c.sync /\ ~c.from_dir THEN Exit(1)
    ELSE IF ReadFails(c) THEN Exit(1)
    ELSE IF c.from_dir THEN FromDirStep(c)
    ELSE IndividualStep(c)

\* all_gist_ids: GIST_IDS, then the lines of the file that are not blank,
\* stripped
AllGistIds(c) ==
    c.gist_ids \o SelectSeq([k \in DOMAIN c.from_file |-> Strip(c.from_file[k])],
                            LAMBDA line : Len(line) > 0)

\* delete_gist for one ID, delete_gists_batch for more
DeleteCall(c) ==
    IF Len(AllGistIds(c)) = 1
    THEN CallManager(Args("delete_gist", AllGistIds(c)[1], EmptyDict, <<>>, None, FALSE, TRUE))
    ELSE CallManager([NoArgs EXCEPT !.op = "delete_gists_batch", !.gist_ids = AllGistIds(c)])

\* the delete command up to its first call or prompt
DeletePlan(c) ==
    IF ~TruthyList(AllGistIds(c)) THEN Exit(1)
    ELSE IF ~c.token_found THEN Exit(1)
    ELSE IF c.dry_run THEN Exit(0)
    ELSE IF ~c.force /\ ~c.quiet THEN Prompt
    ELSE DeleteCall(c)

\* the command c goes on as planned
Do(c, plan) ==
    IF plan.do = "exit"
    THEN cli' = [c EXCEPT !.pc = "exit", !.exit_code = plan.code] /\ UNCHANGED call
    ELSE IF plan.do = "prompt"
    THEN cli' = [c EXCEPT !.pc = "prompt"] /\ UNCHANGED call
    ELSE cli' = [c EXCEPT !.pc = "call"] /\ call' = Entry(plan.args, 1)

\* the answer to a prompt: the call on "yes", return on any other input,
\* exit code 1 on no input
Answered(answer, confirmed) ==
    Do([cli EXCEPT !.answer = answer],
       IF answer = "yes" THEN confirmed
       ELSE IF answer = "no" THEN Exit(0)
       ELSE Exit(1))

CliInit ==
    /\ \/ /\ \E o \in UpdateCommands : cli = Started(o)
          /\ account = Holding(AccountIds)
       \/ /\ \E o \in DeleteCommands : cli = Started(o)
          /\ account \in {Holding(AccountIds), Holding({})}
    /\ remote = [files |-> [n \in Names |-> "A"], description |-> "old desc"]
    /\ call = [Entry(NoArgs, 0) EXCEPT !.pc = "idle"]
    /\ requests = <<>>

\* gist update: the function up to its first call or prompt
UpdateCommand ==
    /\ cli.pc = "start"
    /\ cli.command = "update"
    /\ Do(cli, UpdatePlan(cli))
    /\ UNCHANGED <<recon, norm, remote, requests, reader, account>>

\* the user answers "Update gist ...?"
UpdateConfirm ==
    /\ cli.pc = "prompt"
    /\ cli.command = "update"
    /\ \E answer \in Answers : Answered(answer, UpdateGistCall(cli))
    /\ UNCHANGED <<recon, norm, remote, requests, reader, account>>

\* the call of the update command is over: an exception exits with 1, and so
\* does a dry run of a directory in which no file matches
UpdateReturns ==
    /\ cli.pc = "call"
    /\ cli.command = "update"
    /\ call.pc = "done"
    /\ cli' = [cli EXCEPT !.pc = "exit",
                  !.exit_code = IF call.result # "ok" THEN 1
                                ELSE IF cli.from_dir /\ cli.dry_run
                                        /\ ~TruthyDict(cli.dir_files) THEN 1
                                ELSE 0]
    /\ UNCHANGED <<recon, norm, remote, call, requests, reader, account>>

\* gist delete: the function up to its first call or prompt
DeleteCommand ==
    /\ cli.pc = "start"
    /\ cli.command = "delete"
    /\ Do(cli, DeletePlan(cli))
    /\ UNCHANGED <<recon, norm, remote, requests, reader, account>>

\* the user answers the confirmation of the deletion
DeleteConfirm ==
    /\ cli.pc = "prompt"
    /\ cli.command = "delete"
    /\ \E answer \in Answers : Answered(answer, DeleteCall(cli))
    /\ UNCHANGED <<recon, norm, remote, requests, reader, account>>

\* the call of the delete command is over: an exception exits with 1
DeleteReturns ==
    /\ cli.pc = "call"
    /\ cli.command = "delete"
    /\ call.pc = "done"
    /\ cli' = [cli EXCEPT !.pc = "exit",
                  !.exit_code = IF call.result # "ok" THEN 1 ELSE 0]
    /\ UNCHANGED <<recon, norm, remote, call, requests, reader, account>>

---------------------------------------------------------------------------
(* Specifications *)

\* the calls of GistManager against the remote gist
Init == ReconIdle /\ NormIdle /\ ClientInit /\ ReaderIdle /\ CliIdle
Next ==
    \/ GetGistBegin
    \/ UpdateGistBegin
    \/ UpdateFromDirectoryBegin
    \/ GetFails
    \/ GetGistReturns
    \/ UpdatePrepares
    \/ PatchFails
    \/ PatchSucceeds
    \/ Repeat
    \/ CreateGistBegin
    \/ CreateSucceeds
    \/ CreateFails
    \/ ListGistsBegin
    \/ ListSucceeds
    \/ ListFails
    \/ DeleteGistBegin
    \/ DeleteSucceeds
    \/ DeleteFails
    \/ BatchBegin
    \/ BatchNext
    \/ BatchDeleteSucceeds
    \/ BatchDeleteFails
    \/ BatchReturns
Spec == Init /\ [][Next]_vars

\* _prepare_update_payload on every argument list within the bounds
InitReconcile == ReconInit /\ NormIdle /\ ClientIdle /\ ReaderIdle /\ CliIdle
NextReconcile == Prepare
SpecReconcile == InitReconcile /\ [][NextReconcile]_vars

\* _extract_gist_id on every input within the bounds
InitNorm == ReconIdle /\ NormInit /\ ClientIdle /\ ReaderIdle /\ CliIdle
NextNorm == Extract \/ Validate
SpecNorm == InitNorm /\ [][NextNorm]_vars

\* _read_files_from_paths on every list of paths within the bounds
InitRead == ReconIdle /\ NormIdle /\ ClientIdle /\ ReaderInit /\ CliIdle
NextRead == ReadFiles
SpecRead == InitRead /\ [][NextRead]_vars

\* update_gist(gist_id, files) on a gist that another client changes between
\* the GET and the PATCH
InitInterleaved ==
    /\ ReconIdle /\ NormIdle /\ ReaderIdle /\ CliIdle
    /\ \E fs \in FileSets : remote = [files |-> fs, description |-> "old desc"]
    /\ account = Holding(AccountIds)
    /\ \E id \in GoodIds, fs \in FileSets :
           call = Entry(Args("update_gist", id, fs, <<>>, None, FALSE, TRUE), 1)
    /\ requests = <<>>
NextInterleaved ==
    \/ UpdateGistBegin
    \/ GetFails
    \/ UpdatePrepares
    \/ Interfere
    \/ PatchFails
    \/ PatchSucceeds
SpecInterleaved == InitInterleaved /\ [][NextInterleaved]_vars

\* the update and delete commands, with the calls of GistManager they make
InitCli == ReconIdle /\ NormIdle /\ ReaderIdle /\ CliInit
NextCli ==
    \/ UpdateCommand
    \/ UpdateConfirm
    \/ UpdateReturns
    \/ DeleteCommand
    \/ DeleteConfirm
    \/ DeleteReturns
    \/ GetGistBegin
    \/ UpdateGistBegin
    \/ UpdateFromDirectoryBegin
    \/ GetFails
    \/ GetGistReturns
    \/ UpdatePrepares
    \/ PatchFails
    \/ PatchSucceeds
    \/ DeleteGistBegin
    \/ DeleteSucceeds
    \/ DeleteFails
    \/ BatchBegin
    \/ BatchNext
    \/ BatchDeleteSucceeds
    \/ BatchDeleteFails
    \/ BatchReturns
SpecCli == InitCli /\ [][NextCli]_vars

\* the identifiers: _extract_gist_id on every input within the bounds, and
\* the calls of GistManager
InitIds == InitNorm \/ Init
NextIds == NextNorm \/ Next
SpecIds == InitIds /\ [][NextIds]_vars

---------------------------------------------------------------------------
(* The reconciler: claims about _prepare_update_payload (SpecReconcile) *)

Returned == recon.pc = "return"
CurrentFiles == recon.current_gist.files
NewFiles == recon.new_files
ToRemove == Range(recon.files_to_remove)
FilesPayload == PayloadFiles(recon.payload)

\* the intent's content for f is not what the snapshot holds under that name
Differs(f) == f \notin DOMAIN CurrentFiles \/ CurrentFiles[f].content # NewFiles[f]

\* the payload tombstones exactly the snapshot's names the intent does not
\* list, and stages the intent's content for a listed name exactly when it
\* differs from the snapshot's
SyncExact ==
    /\ Tombstones(FilesPayload) = DOMAIN CurrentFiles \ DOMAIN NewFiles
    /\ \A f \in DOMAIN NewFiles :
           /\ f \in Staged(FilesPayload) <=> Differs(f)
           /\ f \in Staged(FilesPayload) => FilesPayload[f] = [content |-> NewFiles[f]]

ProperSubset(A, B) == A \subseteq B /\ A # B

\* C1 as claimed: with sync on and the intent's filenames a proper subset of
\* the snapshot's, the payload tombstones exactly the snapshot's names missing
\* from the intent and stages a listed file's content exactly when it differs.
C1_SyncCorrectnessAsClaimed ==
    (Returned /\ recon.sync_mode /\ ProperSubset(DOMAIN NewFiles, DOMAIN CurrentFiles))
        => SyncExact

\* C1 amended: the same, for an intent whose file set is not empty and whose
\* files_to_remove names none of its own files.
C1_SyncCorrectness ==
    (/\ Returned
     /\ recon.sync_mode
     /\ ProperSubset(DOMAIN NewFiles, DOMAIN CurrentFiles)
     /\ DOMAIN NewFiles # {}
     /\ ToRemove \cap DOMAIN NewFiles = {})
        => SyncExact

\* the scenario of the specification: one file modified, the other removed
C1_Witness ==
    /\ Returned
    /\ recon.sync_mode
    /\ recon.files_to_remove = <<>>
    /\ FilesOf(recon.current_gist) = ("main.py" :> "A" @@ "README.md" :> "A\n")
    /\ NewFiles = ("main.py" :> "A\n")
    /\ FilesPayload = ("main.py" :> [content |-> "A\n"] @@ "README.md" :> Null)

\* rule 2 on a files payload fp, for the intent's file f
Rule2(fp, f) ==
    IF Differs(f) THEN f \in DOMAIN fp /\ fp[f] = [content |-> NewFiles[f]]
    ELSE f \notin DOMAIN fp

\* C4: for every file of the intent, the first loop stages its content when
\* the snapshot lacks the name or holds another content under it (compared as
\* the strings are, line endings included) and stages nothing when the content
\* is the same; the returned payload holds exactly that for every such file
\* not tombstoned by an explicit removal.
C4_Rule2 ==
    Returned =>
        \A f \in DOMAIN NewFiles :
            /\ Rule2(recon.staged, f)
            /\ f \notin ToRemove \cap DOMAIN CurrentFiles => Rule2(FilesPayload, f)

\* an add, a modify by a line ending only, and an identical file left out
C4_Witness ==
    /\ Returned
    /\ FilesOf(recon.current_gist) = ("main.py" :> "A")
    /\ NewFiles = ("main.py" :> "A\n" @@ "README.md" :> "A")
    /\ recon.staged = ("main.py" :> [content |-> "A\n"] @@ "README.md" :> [content |-> "A"])
    /\ FilesPayload = recon.staged

\* C5: every name in files_to_remove that the snapshot holds is mapped by the
\* payload to null, whatever the first loop staged for it and whether or not
\* sync would remove it too; a name in files_to_remove that the snapshot does
\* not hold gets no tombstone and no entry beyond what the first loop staged.
C5_ExplicitRemoval ==
    Returned =>
        \A f \in ToRemove :
            IF f \in DOMAIN CurrentFiles
            THEN f \in DOMAIN FilesPayload /\ FilesPayload[f] = Null
            ELSE /\ f \notin Tombstones(FilesPayload)
                 /\ f \in DOMAIN FilesPayload <=> f \in DOMAIN recon.staged
                 /\ f \in DOMAIN FilesPayload => FilesPayload[f] = recon.staged[f]

\* a removal that replaces a staged modify, a removal that sync would make
\* too, and a listed name the snapshot does not hold
C5_Witness ==
    /\ Returned
    /\ recon.sync_mode
    /\ FilesOf(recon.current_gist) = ("main.py" :> "A" @@ "README.md" :> "A")
    /\ NewFiles = ("main.py" :> "A\n")
    /\ recon.files_to_remove = <<"main.py", "README.md">>
    /\ recon.staged = ("main.py" :> [content |-> "A\n"])
    /\ FilesPayload = ("main.py" :> Null @@ "README.md" :> Null)

\* C20: with sync on and an empty intent file set, the third loop stages
\* nothing: the payload's file entries are exactly the tombstones of the names
\* in files_to_remove that the snapshot holds, and every other file of the
\* snapshot is left out of the payload.
C20_SyncGating ==
    (Returned /\ recon.sync_mode /\ NewFiles = EmptyDict)
        => /\ DOMAIN FilesPayload = ToRemove \cap DOMAIN CurrentFiles
           /\ Tombstones(FilesPayload) = DOMAIN FilesPayload

\* sync on, no files, one removal: the snapshot's other file is not touched
C20_Witness ==
    /\ Returned
    /\ recon.sync_mode
    /\ NewFiles = EmptyDict
    /\ FilesOf(recon.current_gist) = ("main.py" :> "A" @@ "README.md" :> "A")
    /\ recon.files_to_remove = <<"README.md">>
    /\ FilesPayload = ("README.md" :> Null)

---------------------------------------------------------------------------
(* The update calls against the remote gist (Spec) *)

IsUpdate == call.args.op \in {"update_gist", "update_from_directory"}
Patches == SelectSeq(requests, LAMBDA r : r.method = "PATCH")
OnlyTheGet == Len(requests) = 1 /\ requests[1].method = "GET"
Succeeded == call.pc = "done" /\ call.result = "ok"
Refused == call.pc = "done" /\ call.result = "NoChanges"

\* C2: when update_from_directory with sync=True has succeeded, the remote
\* gist holds exactly the local files: the same names, each with the local
\* content.
C2_SyncMakesRemoteMatchLocal ==
    (call.args.op = "update_from_directory" /\ call.args.sync /\ Succeeded)
        => remote.files = call.args.files

\* a sync that removed a remote file and added or changed another
C2_Witness ==
    /\ call.args.op = "update_from_directory" /\ call.args.sync /\ Succeeded
    /\ call.attempt = 1
    /\ Tombstones(PayloadFiles(call.payload)) # {}
    /\ Staged(PayloadFiles(call.payload)) # {}
    /\ remote.files = call.args.files

\* every file of the call is in the fetched gist with the same content
SubsetIdentical ==
    \A f \in DOMAIN call.args.files :
        /\ f \in DOMAIN call.current_gist.files
        /\ call.current_gist.files[f].content = call.args.files[f]

C6_DescriptionOnly ==
    (IsUpdate /\ call.fetched /\ call.args.description # None)
        => /\ "description" \in DOMAIN call.payload
           /\ call.payload.description = call.args.description[1]
           /\ (call.args.files = EmptyDict /\ call.args.files_to_remove = <<>>)
                => /\ call.payload = [description |-> call.args.description[1]]
                   /\ ~Refused
                   /\ Len(Patches) = 1
                   /\ Patches[1].body = call.payload

\* the description set to the empty string and nothing else, applied remotely
C6_Witness ==
    /\ call.args.op = "update_gist"
    /\ call.attempt = 1
    /\ call.args.description = Some("")
    /\ call.args.files = EmptyDict /\ call.args.files_to_remove = <<>>
    /\ Succeeded
    /\ Len(Patches) = 1
    /\ remote.description = ""

\* the second run found nothing to send
SecondRunIsNoOp == call.payload = EmptyDict /\ Refused /\ OnlyTheGet

\* C7 as claimed: an update that has been applied and is run again with the
\* same files, removals, description and sync flag, on the gist as the first
\* run left it, is a no-op: empty payload, refused, no PATCH.
C7_IdempotenceAsClaimed ==
    (IsUpdate /\ call.attempt = 2 /\ call.fetched) => SecondRunIsNoOp

\* C7 amended: the same, for an update with no description and with no
\* filename both in files and in files_to_remove.
C7_Idempotence ==
    (/\ IsUpdate /\ call.attempt = 2 /\ call.fetched
     /\ call.args.description = None
     /\ Range(call.args.files_to_remove) \cap DOMAIN call.args.files = {})
        => SecondRunIsNoOp

\* a second run of an update with a file and a removal, refused
C7_Witness ==
    /\ call.args.op = "update_gist"
    /\ call.attempt = 2
    /\ call.fetched
    /\ call.args.files # EmptyDict
    /\ call.args.files_to_remove # <<>>
    /\ call.args.description = None
    /\ SecondRunIsNoOp

---------------------------------------------------------------------------
(* The normalizer: claims about _extract_gist_id (SpecNorm) *)

\* the validation rule of the specification: length 8..40, alphanumerics and
\* hyphens only, at most 4 hyphens, not a denylisted placeholder
PassesRule(s) ==
    /\ Len(s) >= MinIdLen /\ Len(s) <= MaxIdLen
    /\ \A i \in DOMAIN s : IsAlnumChar(s[i]) \/ s[i] = "-"
    /\ Count(s, "-") <= MaxHyphens
    /\ Lower(s) \notin InvalidPatterns

Extracted == norm.pc = "return"

\* C8 as claimed: a bare string that passes the validation rule is returned
\* unchanged.
C8_BareIdRoundTrip ==
    (Extracted /\ norm.shape.kind = "bare" /\ PassesRule(norm.input))
        => norm.result = Ok(norm.input)

\* C9: for a canonical ID, the gist URL around it normalizes to the ID, with
\* or without a user segment, a trailing slash and a fragment.
C9_UrlVariants ==
    (Extracted /\ norm.shape.kind = "gist url" /\ PassesRule(norm.shape.candidate))
        => norm.result = Ok(norm.shape.candidate)

\* a URL with a user segment, a trailing slash and a fragment after it
C9_Witness ==
    /\ Extracted
    /\ norm.shape.kind = "gist url"
    /\ PassesRule(norm.shape.candidate)
    /\ norm.shape.user # <<>> /\ norm.shape.slash # <<>> /\ norm.shape.fragment # <<>>
    /\ norm.result = Ok(norm.shape.candidate)

\* C10 as claimed: for a URL, the normalizer returns only a segment that
\* passes the validation rule, and fails otherwise.
C10_UrlIdValidated ==
    (Extracted /\ norm.shape.kind # "bare" /\ norm.result.ok)
        => PassesRule(norm.result.id)

\* _is_valid_gist_id has returned
Validated == norm.pc = "validated"

\* C11: _is_valid_gist_id accepts a string exactly when its length is in
\* 8..40, its characters are alphanumerics and hyphens only, it has at most 4
\* hyphens, and its lowercase form is not a denylisted placeholder.
C11_ValidationRule ==
    Validated => (norm.result.ok <=> PassesRule(norm.input))

\* an accepted ID of the least length with the most hyphens allowed
C11_Witness ==
    /\ Validated
    /\ norm.result.ok
    /\ Count(norm.input, "-") = MaxHyphens
    /\ Len(norm.input) = MinIdLen + 1

\* a placeholder with capitals, a string one character too long and a string
\* with one hyphen too many, each rejected
C11_WitnessRejected ==
    /\ Validated
    /\ ~norm.result.ok
    /\ \/ norm.input = <<"T", "e", "s", "t", "-", "G", "i", "s", "t">>
       \/ Len(norm.input) = MaxIdLen + 1 /\ IsAlnum(norm.input)
       \/ Count(norm.input, "-") = MaxHyphens + 1 /\ IsAlnum(Remove(norm.input, "-"))

---------------------------------------------------------------------------
(* Identifiers that are not gist IDs (SpecIds: the normalizer on every input *)
(* of SpecNorm, and the calls of Spec)                                       *)

\* empty or whitespace only
Blank(s) == Strip(s) = <<>>

\* URL-like: an http scheme in front, or a scheme separator inside
UrlLike(s) == StartsWith(Strip(s), Http) \/ Contains(s, <<":", "/", "/">>)

\* a URL of the gist domain with no segment after the domain, the fragment
\* set aside
GistUrlNoId(s) ==
    LET t == Strip(s)
        u == IF HasChar(t, "#") THEN Split(t, "#")[1] ELSE t
        parts == Split(u, "/")
    IN  /\ StartsWith(t, Scheme \o GistDomain)
        /\ Len(parts) >= 3 /\ parts[3] = GistDomain
        /\ \A k \in 4..Len(parts) : parts[k] = <<>>

\* one of the denylisted placeholders, in any case
Placeholder(s) == Lower(Strip(s)) \in InvalidPatterns

NeverAnId(s) ==
    \/ Blank(s)
    \/ UrlLike(s) /\ ~Contains(s, GistDomain)
    \/ GistUrlNoId(s)
    \/ Placeholder(s)

IdentifierErrors == {"InvalidIdentifier", "UnresolvableIdentifier"}
TakesOneId == call.args.op \in {"get_gist", "update_gist", "update_from_directory", "delete_gist"}

\* update_from_directory raised before it looked at the identifier
ScanFailed == call.result \in {"DirectoryNotFound", "NoFilesFound"}

\* C12: _extract_gist_id raises for every input that is blank, URL-like
\* without the gist domain, a gist URL with no ID segment, or a placeholder;
\* get_gist, update_gist, update_from_directory and delete_gist given such an
\* identifier raise without having issued any request.
C12_NeverAnIdNoRequest ==
    /\ (Extracted /\ NeverAnId(norm.input)) => ~norm.result.ok
    /\ (TakesOneId /\ NeverAnId(call.args.gist_id))
          => /\ requests = <<>>
             /\ call.pc \in {"entry", "done"}
             /\ (call.pc = "done" /\ ~ScanFailed) => call.result \in IdentifierErrors

\* update_gist on the gist domain with a trailing slash and no ID
C12_Witness ==
    /\ call.args.op = "update_gist"
    /\ GistUrlNoId(call.args.gist_id)
    /\ call.args.files # EmptyDict
    /\ call.pc = "done"
    /\ call.result = "UnresolvableIdentifier"
    /\ requests = <<>>

---------------------------------------------------------------------------
(* delete_gist and delete_gists_batch (Spec) *)

\* the identifiers delete_gist's test takes for invalid: the empty string,
\* strings shorter than 8 characters, and "not-a-gist-id"
NotAGistId == <<"n", "o", "t", "-", "a", "-", "g", "i", "s", "t", "-", "i", "d">>
InvalidFormat(s) == s = <<>> \/ Len(s) < MinIdLen \/ s = NotAGistId

\* C13 as claimed: delete_gist given the empty string, a string shorter than
\* 8 characters or the placeholder "not-a-gist-id" raises the
\* invalid-identifier error and has issued no DELETE.
C13_DeleteInvalidId ==
    (call.args.op = "delete_gist" /\ InvalidFormat(call.args.gist_id) /\ call.pc # "entry")
        => /\ call.pc = "done"
           /\ call.result = "InvalidIdentifier"
           /\ requests = <<>>

IsBatch == call.args.op = "delete_gists_batch"
GistIds == call.args.gist_ids

\* the elements of seq at the indices in S, in the order of seq
Pick(seq, S) ==
    LET idx == SelectSeq([k \in 1..Len(seq) |-> k], LAMBDA k : k \in S)
    IN  [j \in 1..Len(idx) |-> seq[idx[j]]]

\* the IDs of the batch as delete_gist addresses them, and those it accepts
CleanIds == [k \in 1..Len(GistIds) |-> ExtractGistId(GistIds[k]).id]
Accepted(n) == {k \in 1..n : ExtractGistId(GistIds[k]).ok
                              /\ IsValidGistId(ExtractGistId(GistIds[k]).id)}

\* the number of IDs the loop has taken: those done with, and the one whose
\* DELETE is in flight
Finished == IF call.pc = "entry" THEN 0 ELSE call.i - 1
Taken == IF call.pc = "batch delete" THEN call.i ELSE Finished

\* C14: delete_gists_batch goes through the whole list whatever fails: every
\* ID taken so far has its entry in deleted or failed, the DELETEs issued are
\* those of the accepted IDs taken so far in list order, the call ends only
\* when every ID is done with, it returns the results and never raises, and
\* success is true exactly when every ID is in deleted.
C14_ContinueOnError ==
    IsBatch =>
        /\ Len(call.results.deleted) + Len(call.results.failed) = Finished
        /\ [k \in 1..Len(requests) |-> requests[k].id] = Pick(CleanIds, Accepted(Taken))
        /\ \A k \in 1..Len(requests) : requests[k].method = "DELETE"
        /\ call.pc = "done"
              => /\ Finished = Len(GistIds)
                 /\ call.result = "ok"
                 /\ call.results.success <=> Len(call.results.deleted) = Len(GistIds)

\* a batch whose first ID fails and whose second is deleted all the same
C14_Witness ==
    /\ IsBatch
    /\ call.pc = "done"
    /\ Len(GistIds) = 2
    /\ Len(call.results.failed) = 1 /\ call.results.failed[1].gist_id = GistIds[1]
    /\ Len(call.results.deleted) = 1 /\ call.results.deleted[1].gist_id = CleanIds[2]
    /\ Len(requests) = 2
    /\ ~call.results.success

\* C15: in the results of delete_gists_batch, total is the number of IDs
\* given, deleted and failed count the entries of the two lists and add up to
\* total, and the IDs split into two parts, each kept in list order: the
\* deleted list holds the clean IDs of one part, the failed list the IDs of
\* the other as given.
C15_BatchBookkeeping ==
    (IsBatch /\ call.pc = "done") =>
        LET r == call.results
            n == Len(GistIds)
        IN  /\ r.summary.total = n
            /\ r.summary.deleted = Len(r.deleted)
            /\ r.summary.failed = Len(r.failed)
            /\ r.summary.deleted + r.summary.failed = r.summary.total
            /\ \E D \in SUBSET (1..n) :
                   /\ [k \in 1..Len(r.deleted) |-> r.deleted[k].gist_id] = Pick(CleanIds, D)
                   /\ [k \in 1..Len(r.failed) |-> r.failed[k].gist_id]
                          = Pick(GistIds, (1..n) \ D)

\* the same ID twice: deleted the first time, failed the second
C15_Witness ==
    /\ IsBatch
    /\ call.pc = "done"
    /\ Len(GistIds) = 2 /\ GistIds[1] = GistIds[2]
    /\ CleanIds[1] # GistIds[1]
    /\ Len(call.results.deleted) = 1 /\ Len(call.results.failed) = 1
    /\ call.results.failed[1].error = "NotFound"
    /\ call.results.summary = [total |-> 2, deleted |-> 1, failed |-> 1]

---------------------------------------------------------------------------
(* Requests and failures of the calls (Spec) *)

\* C16: in every update call a PATCH is the second request after the GET and
\* carries the payload; no PATCH is issued unless the GET has returned the
\* gist; the payload is the one _prepare_update_payload computes from the
\* gist that GET returned, which is the remote gist as it is at that time,
\* also when the same update has run before.
C16_FreshSnapshot ==
    IsUpdate =>
        /\ Len(Patches) > 0
              => /\ call.fetched
                 /\ Len(requests) = 2
                 /\ requests[1].method = "GET" /\ requests[2].method = "PATCH"
                 /\ requests[2].body = call.payload
        /\ call.fetched
              => call.payload =
                     PrepareUpdatePayload(call.current_gist, call.args.files,
                         call.args.files_to_remove, call.args.description, call.args.sync)
        /\ (call.fetched /\ ~Succeeded)
              => call.current_gist = GistOf(remote.files, remote.description)

\* the second run of an update works from the gist as the first run left it
C16_Witness ==
    /\ IsUpdate
    /\ call.attempt = 2
    /\ call.pc = "patch"
    /\ call.args.description = Some("new desc")
    /\ call.args.files # EmptyDict
    /\ call.current_gist.description = "new desc"
    /\ FilesOf(call.current_gist) = call.args.files

\* the failure a response stands for in the taxonomy of Fetch
Taxonomy(r) ==
    IF r.status = 404 THEN "NotFound"
    ELSE IF r.status = 401 THEN "AuthFailed"
    ELSE IF r.status = 403 THEN (IF IsRateLimit(r) THEN "RateLimited" ELSE "Forbidden")
    ELSE IF r.status = 422 THEN "ValidationFailed"
    ELSE "Failed"

\* C17 as claimed: an update whose PATCH is answered 404, 401, 403 or 422
\* fails as NotFound, AuthFailed, RateLimited or Forbidden (by the message),
\* or ValidationFailed, on every update path.
C17_UpdateTaxonomy ==
    (/\ IsUpdate /\ call.pc = "done" /\ Len(Patches) = 1
     /\ call.response.status \in {404, 401, 403, 422})
        => call.result = Taxonomy(call.response)

\* C18 as claimed: delete_gist returns the success marker on 204, and fails
\* as NotFound on 404, AuthFailed on 401, and RateLimited or Forbidden (by
\* the message) on 403.
C18_DeleteTaxonomy ==
    (call.args.op = "delete_gist" /\ call.pc = "done" /\ Len(requests) = 1)
        => /\ call.response.status = 204 => call.result = "ok"
           /\ call.response.status \in {404, 401, 403} => call.result = Taxonomy(call.response)

Methods == [k \in 1..Len(requests) |-> requests[k].method]

\* what a call may have issued: one request, a GET and then a PATCH for an
\* update, and for a batch no more DELETEs than IDs taken
RequestsShape ==
    CASE call.args.op \in {"get_gist", "list_gists"} -> Methods \in {<<>>, <<"GET">>}
      [] call.args.op = "create_gist" -> Methods \in {<<>>, <<"POST">>}
      [] call.args.op = "delete_gist" -> Methods \in {<<>>, <<"DELETE">>}
      [] IsUpdate -> Methods \in {<<>>, <<"GET">>, <<"GET", "PATCH">>}
      [] IsBatch -> /\ Len(requests) <= Taken
                    /\ Taken <= Len(GistIds)
                    /\ \A k \in 1..Len(requests) : requests[k].method = "DELETE"
      [] OTHER -> requests = <<>>

\* a step in which a request is answered by a failure
FailureAnswered ==
    \/ call.pc \in {"get", "patch", "post", "list", "delete"} /\ call'.response \in Failures
    \/ call.pc = "batch delete" /\ Len(call'.results.failed) > Len(call.results.failed)

---------------------------------------------------------------------------
(* The file collector: claims about _read_files_from_paths (SpecRead) *)

HasRead == reader.pc = "return"
Given == Range(reader.file_paths)
IsText(p) == reader.disk[p].exists /\ reader.disk[p].utf8

\* the last position of the list holding a path of base name n
LastOf(n) ==
    CHOOSE k \in DOMAIN reader.file_paths :
        /\ reader.file_paths[k].name = n
        /\ \A j \in DOMAIN reader.file_paths : reader.file_paths[j].name = n => j <= k

\* C23: for a list of paths that all exist as UTF-8 files,
\* _read_files_from_paths returns a map whose keys are the base names of the
\* paths and whose value for a name is the content of the last path of the
\* list with that base name; for a list of UTF-8 files and missing paths with
\* at least one missing, it raises FileNotFound and returns no map.
C23_FileCollector ==
    HasRead =>
        /\ (\A p \in Given : IsText(p))
              => /\ reader.result.ok
                 /\ DOMAIN reader.result.files = {p.name : p \in Given}
                 /\ \A n \in DOMAIN reader.result.files :
                        reader.result.files[n]
                            = reader.disk[reader.file_paths[LastOf(n)]].content
        /\ (/\ \E p \in Given : ~reader.disk[p].exists
            /\ \A p \in Given : reader.disk[p].exists => reader.disk[p].utf8)
              => reader.result = ReadRaise("FileNotFound")

\* two paths of the same base name and different contents: the second wins
C23_Witness ==
    /\ HasRead
    /\ Len(reader.file_paths) = 2
    /\ reader.file_paths[1].name = reader.file_paths[2].name
    /\ reader.file_paths[1].dir # reader.file_paths[2].dir
    /\ reader.disk[reader.file_paths[1]] = Text("A")
    /\ reader.disk[reader.file_paths[2]] = Text("A\n")
    /\ reader.result = ReadOk((reader.file_paths[1].name :> "A\n"))

---------------------------------------------------------------------------
(* Payload minimality: a claim about _prepare_update_payload (SpecReconcile) *)

\* the snapshot as the remote gist, and a payload of the one entry of f
SnapshotGist ==
    [files |-> FilesOf(recon.current_gist), description |-> recon.current_gist.description]
OneEntry(f) == [files |-> (f :> FilesPayload[f])]

\* C25: in every payload _prepare_update_payload returns, a tombstone names a
\* file of the snapshot, a content entry names a file the snapshot lacks or
\* holds with another content, every entry applied alone changes the gist,
\* and the payload has the key "files" exactly when an entry is staged.
C25_PayloadMinimality ==
    Returned =>
        /\ \A f \in Tombstones(FilesPayload) : f \in DOMAIN CurrentFiles
        /\ \A f \in Staged(FilesPayload) :
               \/ f \notin DOMAIN CurrentFiles
               \/ ContentOf(CurrentFiles[f]) # FilesPayload[f].content
        /\ \A f \in DOMAIN FilesPayload :
               ApplyPatch(SnapshotGist, OneEntry(f)) # SnapshotGist
        /\ ("files" \in DOMAIN recon.payload) <=> (DOMAIN FilesPayload # {})

\* an intent that names a file the snapshot holds unchanged, one it holds with
\* another content, and a removal of a file the snapshot lacks: only the
\* changed file is staged
C25_Witness ==
    /\ Returned
    /\ ~recon.sync_mode
    /\ CurrentFiles = GistOf(("main.py" :> "A"), "old desc").files
    /\ NewFiles = ("main.py" :> "A")
    /\ recon.files_to_remove = <<"README.md">>
    /\ recon.description = None
    /\ recon.payload = EmptyDict

\* a changed file and a removal of a held file: both are in the payload
C25_WitnessStaged ==
    /\ Returned
    /\ NewFiles = ("main.py" :> "A\n")
    /\ recon.files_to_remove = <<"README.md">>
    /\ FilesPayload = ("main.py" :> [content |-> "A\n"]) @@ ("README.md" :> Null)

---------------------------------------------------------------------------
(* The frame of an update that does not sync (Spec) *)

\* the files of the fetched gist the call names neither in files nor in
\* files_to_remove
Untouched ==
    {f \in DOMAIN call.current_gist.files :
        f \notin DOMAIN call.args.files /\ f \notin Range(call.args.files_to_remove)}

\* C26: in an update with sync off, no file of the fetched gist that the call
\* names neither in files nor in files_to_remove is in the payload, every
\* tombstone of the payload is a name of files_to_remove, and once the PATCH
\* is applied each such file is in the remote gist with the content fetched.
C26_NonSyncFrame ==
    (IsUpdate /\ ~call.args.sync /\ call.fetched)
        => /\ Untouched \cap DOMAIN PayloadFiles(call.payload) = {}
           /\ Tombstones(PayloadFiles(call.payload)) \subseteq Range(call.args.files_to_remove)
           /\ Succeeded =>
                 \A f \in Untouched :
                    /\ f \in DOMAIN remote.files
                    /\ remote.files[f] = call.current_gist.files[f].content

\* a non-sync update_from_directory that changed one file of a gist of two:
\* the other file is still there
C26_Witness ==
    /\ call.args.op = "update_from_directory" /\ ~call.args.sync /\ Succeeded
    /\ call.attempt = 1
    /\ Untouched # {}
    /\ Staged(PayloadFiles(call.payload)) # {}
    /\ Staged(PayloadFiles(call.payload)) \subseteq DOMAIN call.current_gist.files
    /\ DOMAIN remote.files = DOMAIN call.current_gist.files

---------------------------------------------------------------------------
(* Listing the gists of the account (Spec) *)

IsList == call.args.op = "list_gists"
Listed == IsList /\ Succeeded
SentPerPage == requests[1].body.per_page
Clamped(limit) == IF limit = None THEN DefaultPerPage ELSE Min(limit[1], MaxPerPage)

\* C21: once list_gists has sent its GET, the per_page of the request is
\* min(limit, 100), or 30 when no limit is given, and lies in 1..100; the
\* per_page of the returned dict is the same number.
C21_PageSizeClamp ==
    (IsList /\ Len(requests) > 0)
        => /\ SentPerPage = Clamped(call.args.limit)
           /\ SentPerPage \in 1..MaxPerPage
           /\ Succeeded => call.listing.per_page = SentPerPage

\* the same for a limit of at least 1: the part of C21 that holds
C21_ClampFromOne ==
    (IsList /\ Len(requests) > 0 /\ call.args.limit # None /\ call.args.limit[1] >= 1)
        => /\ SentPerPage = Clamped(call.args.limit)
           /\ SentPerPage \in 1..MaxPerPage
           /\ Succeeded => call.listing.per_page = SentPerPage

\* the same with no limit given: 30 is sent and reported
C21_DefaultWithoutLimit ==
    (IsList /\ Len(requests) > 0 /\ call.args.limit = None)
        => /\ SentPerPage = DefaultPerPage
           /\ Succeeded => call.listing.per_page = DefaultPerPage

ListedGists == {call.listing.gists[k] : k \in DOMAIN call.listing.gists}

\* C22: when list_gists has returned, with visibility 'public' every gist of
\* the result is public, with visibility 'private' every gist of the result
\* is secret.
C22_VisibilityFilter ==
    Listed =>
        /\ call.args.visibility = Some("public") => \A g \in ListedGists : g.public
        /\ call.args.visibility = Some("private") => \A g \in ListedGists : ~g.public

\* with no visibility given, the gists of both kinds the API returned are in
\* the result: the part of C22 that holds
C22_BothKindsWithoutFilter ==
    (Listed /\ call.args.visibility = None)
        => call.listing.gists = ApiPage(account, requests[1].body)

---------------------------------------------------------------------------
(* The batch deletion and the gists of the account (Spec) *)

BatchDone == IsBatch /\ call.pc = "done"

\* the positions of the list that name the gist id
NamedAt(id) == {k \in Accepted(Len(GistIds)) : CleanIds[k] = id}

\* the entries of the two result lists for the gist id
DeletedEntries(id) ==
    {k \in DOMAIN call.results.deleted : call.results.deleted[k].gist_id = id}
FailedEntries(id) ==
    {k \in DOMAIN call.results.failed :
        ExtractGistId(call.results.failed[k].gist_id) = Ok(id)}

\* the gists reported deleted are gone, the gists the list does not name exist
RemoteAfterBatch ==
    /\ \A k \in DOMAIN call.results.deleted :
           call.results.deleted[k].gist_id \notin Existing(account)
    /\ \A id \in DOMAIN account : NamedAt(id) = {} => account[id]

\* id is reported once as deleted and once as failed, not found
OnceDeletedOnceNotFound(id) ==
    /\ Cardinality(DeletedEntries(id)) = 1
    /\ Cardinality(FailedEntries(id)) = 1
    /\ \A k \in FailedEntries(id) : call.results.failed[k].error = "NotFound"
    /\ ~call.results.success

\* every DELETE of the batch was answered 204 or 404
AnsweredFromTheGists ==
    \A k \in DOMAIN call.results.failed :
        call.results.failed[k].error \in {"NotFound"} \cup IdentifierErrors

\* C29 as claimed: when delete_gists_batch has returned, every gist reported
\* under deleted is gone, every gist of the account the list does not name
\* exists, and a gist of the account the list names twice is reported once
\* under deleted and once under failed as not found, with success false.
C29_BatchAgainstRemoteAsClaimed ==
    BatchDone =>
        /\ RemoteAfterBatch
        /\ \A id \in DOMAIN account :
               Cardinality(NamedAt(id)) = 2 => OnceDeletedOnceNotFound(id)

\* C29 amended: the same, where the report on a gist named twice is claimed
\* for a batch in which every DELETE was answered 204 or 404.
C29_BatchAgainstRemote ==
    BatchDone =>
        /\ RemoteAfterBatch
        /\ AnsweredFromTheGists =>
               \A id \in DOMAIN account :
                   Cardinality(NamedAt(id)) = 2 => OnceDeletedOnceNotFound(id)

\* a bare ID of the account named twice: deleted, then not found, and the
\* two gists the list does not name are still there
C29_Witness ==
    /\ BatchDone
    /\ Len(GistIds) = 2 /\ GistIds[1] = GistIds[2]
    /\ GistIds[1] \in AccountIds
    /\ account = [Holding(AccountIds) EXCEPT ![GistIds[1]] = FALSE]
    /\ AnsweredFromTheGists
    /\ OnceDeletedOnceNotFound(GistIds[1])
    /\ Len(requests) = 2

---------------------------------------------------------------------------
(* update_gist and the changes of another client (SpecInterleaved) *)

\* the remote gist holds every file of the call with the call's content
HoldsTheFiles ==
    \A f \in DOMAIN call.args.files :
        f \in DOMAIN remote.files /\ remote.files[f] = call.args.files[f]

\* C30: when update_gist(files=F) has succeeded, right after its PATCH is
\* applied the remote gist holds F[f] for every f of F, whatever another
\* client did to the gist between the GET and the PATCH.
C30_UpdateUnderInterleaving ==
    (/\ call.args.op = "update_gist"
     /\ call.args.files_to_remove = <<>>
     /\ Succeeded)
        => HoldsTheFiles

\* the same in Spec, where no other client acts between the GET and the
\* PATCH: the part of C30 that holds
C30_UpdateAlone ==
    (/\ call.args.op = "update_gist"
     /\ call.args.files_to_remove = <<>>
     /\ Succeeded
     /\ call.attempt = 1)
        => HoldsTheFiles

---------------------------------------------------------------------------
(* The update and delete commands (SpecCli) *)

IsUpdateCommand == cli.command = "update"
IsDeleteCommand == cli.command = "delete"
Exited == cli.pc = "exit"
Sent(method) == \E k \in DOMAIN requests : requests[k].method = method
CalledUpdate == call.args.op \in {"update_gist", "update_from_directory"}

\* update with --dry-run never calls update_gist or update_from_directory,
\* sends at most the GET of the gist and leaves the gist as it was
DryRunChangesNothing ==
    /\ ~CalledUpdate
    /\ ~Sent("PATCH")
    /\ Len(requests) <= 1
    /\ \A k \in DOMAIN requests : requests[k].method = "GET"
    /\ remote = [files |-> [n \in Names |-> "A"], description |-> "old desc"]

\* the dry run had its gist fetched and, for a directory, found files
DryRunShown ==
    /\ call.args.op = "get_gist" /\ Succeeded
    /\ cli.from_dir => TruthyDict(cli.dir_files)

C27_DeleteConfirmation ==
    (IsDeleteCommand /\ Sent("DELETE")) => (cli.force \/ cli.answer = "yes")

\* the same without --quiet: the part of C27 that holds
C27_DeleteConfirmationNotQuiet ==
    (IsDeleteCommand /\ ~cli.quiet /\ Sent("DELETE")) => (cli.force \/ cli.answer = "yes")

\* the delete command with --dry-run sends nothing, whatever the other flags
C27_DeleteDryRun ==
    (IsDeleteCommand /\ cli.dry_run) => requests = <<>>

\* C28: the update command without --force and without --dry-run sends no
\* PATCH unless the user confirmed at the prompt.
C28_UpdateConfirmation ==
    (IsUpdateCommand /\ ~cli.force /\ ~cli.dry_run /\ Sent("PATCH"))
        => cli.answer = "yes"

\* the same in the mode of individual files: the part of C28 that holds
C28_UpdateConfirmationIndividual ==
    (IsUpdateCommand /\ ~cli.from_dir /\ ~cli.force /\ ~cli.dry_run /\ Sent("PATCH"))
        => cli.answer = "yes"

=============================================================================
